---- MODULE Spec2Model ----
(***************************************************************************)
(* Rhyme-scheme enforcement of the NeuroPoet poetry service                *)
(* (neuropoet-poetry/src/inference/postprocessing.py) and the text        *)
(* utilities it rests on (preprocessing/preprocessing_utils.py).           *)
(*                                                                         *)
(* Text is a sequence of characters.  TLA+ strings are ASCII, so every     *)
(* Cyrillic character is written by a transliterated token:                *)
(*   vowels      a e yo i o u y eh yu ya      (а е ё и о у ы э ю я)        *)
(*   consonants  b v g d zh z j k l m n p r s t f h c ch sh sch            *)
(*   soft sign   soft (ь);   capital letters  D K (Д К)                    *)
(*   stress      ACUTE GRAVE (U+0301, U+0300);  "+" is StressRNN's mark    *)
(*   others      "," ";" ":" "-" EMDASH ENDASH ELLIPSIS (punctuation),      *)
(*               " " (whitespace), "1" (digit)                             *)
(***************************************************************************)
EXTENDS Naturals, Integers, Sequences, FiniteSets, TLC

(***************************************************************************)
(* Character classes                                                       *)
(***************************************************************************)
\* preprocessing_utils.VOWELS
VOWELS == {"a", "e", "yo", "i", "o", "u", "y", "eh", "yu", "ya"}

\* the consonant class of squash_duplicate_consonants
CONSONANTS ==
  {"b", "v", "g", "d", "zh", "z", "j", "k", "l", "m", "n", "p", "r", "s", "t",
   "f", "h", "c", "ch", "sh", "sch"}

\* preprocessing_utils.STRESS_ACCENTS (combining acute and grave)
STRESS_ACCENTS == {"ACUTE", "GRAVE"}

\* stress_accents() returns STRESS_ACCENTS; [0] is the acute accent
stress_accents == <<"ACUTE", "GRAVE">>

\* capital letters of the model's alphabet with their lower-case forms
UpperToLower == [c \in {"D", "K"} |-> IF c = "D" THEN "d" ELSE "k"]

\* str.lower() on one character
LowerChar(c) == IF c \in DOMAIN UpperToLower THEN UpperToLower[c] ELSE c

\* str.lower()
lower(text) == [i \in 1..Len(text) |-> LowerChar(text[i])]

\* a Cyrillic letter (either case)
IsLetter(c) == c \in VOWELS \cup CONSONANTS \cup {"soft"} \cup DOMAIN UpperToLower

\* the regex class \w: letters, digits, underscore
IsWordChar(c) == IsLetter(c) \/ c \in {"1", "_"}

\* the regex class \s
IsSpace(c) == c = " "

\* the class [\w{stress_accents()}] of find_last_word / replace_last_word
IsWordOrAccent(c) == IsWordChar(c) \/ c \in STRESS_ACCENTS

\* the value None (no sequence of characters equals it)
None == <<"None">>

SetMax(S) == CHOOSE x \in S : \A y \in S : y <= x
SetMin(S) == CHOOSE x \in S : \A y \in S : x <= y

(***************************************************************************)
(* Phonetic normalizer                                                     *)
(***************************************************************************)
\* remove_accents: text.translate(str.maketrans('', '', STRESS_ACCENTS))
remove_accents(text) == SelectSeq(text, LAMBDA c : c \notin STRESS_ACCENTS)

\* squash_duplicate_consonants: re.sub(r'([consonant])\1+', r'\1', text)
RECURSIVE squash_duplicate_consonants(_)
squash_duplicate_consonants(text) ==
  IF Len(text) <= 1 THEN text
  ELSE IF text[1] \in CONSONANTS /\ text[2] = text[1]
       THEN squash_duplicate_consonants(Tail(text))
       ELSE <<text[1]>> \o squash_duplicate_consonants(Tail(text))

\* does pat occur in text at position i
OccursAt(text, pat, i) ==
  /\ i + Len(pat) - 1 <= Len(text)
  /\ \A j \in 1..Len(pat) : text[i + j - 1] = pat[j]

\* str.replace(original, replacement): leftmost, non-overlapping
RECURSIVE StrReplace(_, _, _)
StrReplace(text, pat, rep) ==
  IF Len(text) = 0 THEN text
  ELSE IF OccursAt(text, pat, 1)
       THEN rep \o StrReplace(SubSeq(text, Len(pat) + 1, Len(text)), pat, rep)
       ELSE <<text[1]>> \o StrReplace(Tail(text), pat, rep)

\* preprocessing_utils.OTHER_SUBSTITUTION_PATTERNS, in dict order
OTHER_SUBSTITUTION_PATTERNS ==
  << <<(<<"i", "j">>), (<<"i">>)>>,
     <<(<<"y", "j">>), (<<"y">>)>>,
     <<(<<"t", "s">>), (<<"c">>)>>,
     <<(<<"t", "soft", "s">>), (<<"c">>)>>,
     <<(<<"soft">>), (<<>>)>> >>

\* unify_endings: apply every substitution, in order
RECURSIVE UnifyFrom(_, _)
UnifyFrom(text, k) ==
  IF k > Len(OTHER_SUBSTITUTION_PATTERNS) THEN text
  ELSE UnifyFrom(StrReplace(text, OTHER_SUBSTITUTION_PATTERNS[k][1],
                            OTHER_SUBSTITUTION_PATTERNS[k][2]), k + 1)

unify_endings(text) == UnifyFrom(text, 1)

\* VOWEL_UNIFICATION = str.maketrans("яэыёю", "аеиоу")
VOWEL_UNIFICATION ==
  [c \in {"ya", "eh", "y", "yo", "yu"} |->
     CASE c = "ya" -> "a" [] c = "eh" -> "e" [] c = "y" -> "i"
       [] c = "yo" -> "o" [] c = "yu" -> "u"]

\* text.translate(VOWEL_UNIFICATION)
unify_vowels(text) ==
  [i \in 1..Len(text) |->
     IF text[i] \in DOMAIN VOWEL_UNIFICATION THEN VOWEL_UNIFICATION[text[i]]
     ELSE text[i]]

\* str.strip()
RECURSIVE LStrip(_)
LStrip(text) ==
  IF Len(text) > 0 /\ IsSpace(text[1]) THEN LStrip(Tail(text)) ELSE text

RECURSIVE RStrip(_)
RStrip(text) ==
  IF Len(text) > 0 /\ IsSpace(text[Len(text)])
  THEN RStrip(SubSeq(text, 1, Len(text) - 1)) ELSE text

strip(text) == RStrip(LStrip(text))

\* the text after the stressed vowel taken whole
WholeText(text) == text

\* str.split()[0]: the first whitespace-delimited token
FirstToken(text) ==
  LET t == LStrip(text)
      sp == {i \in 1..Len(t) : IsSpace(t[i])}
  IN IF sp = {} THEN t ELSE SubSeq(t, 1, SetMin(sp) - 1)

(***************************************************************************)
(* Rhyme key extractor                                                     *)
(***************************************************************************)
\* extract_rhyme_key that leaves the punctuation in the line
extract_rhyme_key_punctuated(accented_line) ==
  LET accented_line_clean == lower(accented_line)
      matches ==
        {i \in 1..(Len(accented_line_clean) - 1) :
           /\ accented_line_clean[i] \in VOWELS
           /\ accented_line_clean[i + 1] \in STRESS_ACCENTS}
  IN IF matches = {} THEN None
     ELSE LET last_stress_pos == SetMax(matches)
              post_stress_part ==
                SubSeq(accented_line_clean, last_stress_pos, Len(accented_line_clean))
              rhyme_part == FirstToken(post_stress_part)
          IN strip(unify_vowels(unify_endings(
               squash_duplicate_consonants(remove_accents(rhyme_part)))))

\* extract_rhyme_key(accented_line)
extract_rhyme_key(accented_line) ==
  LET accented_line_clean ==
        SelectSeq(lower(accented_line),
                  LAMBDA c : IsWordChar(c) \/ IsSpace(c) \/ c \in STRESS_ACCENTS)
      matches ==
        {i \in 1..(Len(accented_line_clean) - 1) :
           /\ accented_line_clean[i] \in VOWELS
           /\ accented_line_clean[i + 1] \in STRESS_ACCENTS}
  IN IF matches = {} THEN None
     ELSE LET last_stress_pos == SetMax(matches)
              post_stress_part ==
                SubSeq(accented_line_clean, last_stress_pos, Len(accented_line_clean))
              rhyme_part == FirstToken(post_stress_part)
          IN strip(unify_vowels(unify_endings(
               squash_duplicate_consonants(remove_accents(rhyme_part)))))

(***************************************************************************)
(* Stress annotation                                                       *)
(***************************************************************************)
\* StressRNN.put_stress (external library): the stressed vowel of a word is
\* followed by "+".  Modelled as a deterministic annotator that stresses the
\* last vowel of every word (maximal run of letters) that has a vowel.
RECURSIVE put_stress(_)
put_stress(text) ==
  IF Len(text) = 0 THEN text
  ELSE IF ~IsLetter(text[1]) THEN <<text[1]>> \o put_stress(Tail(text))
  ELSE LET stops == {k \in 1..Len(text) : ~IsLetter(text[k])}
           n == IF stops = {} THEN Len(text) ELSE SetMin(stops) - 1
           word == SubSeq(text, 1, n)
           vs == {k \in 1..n : LowerChar(word[k]) \in VOWELS}
           marked == IF vs = {} THEN word
                     ELSE SubSeq(word, 1, SetMax(vs)) \o <<"+">>
                          \o SubSeq(word, SetMax(vs) + 1, n)
       IN marked \o put_stress(SubSeq(text, n + 1, Len(text)))

\* PoemPostprocessor._accent_text
accent_text(text) == StrReplace(put_stress(text), <<"+">>, <<stress_accents[1]>>)

(***************************************************************************)
(* Last word of a line                                                     *)
(***************************************************************************)
\* the regex assertion \b at position s (between text[s-1] and text[s])
WordBoundaryAt(text, s) ==
  (s <= Len(text) /\ IsWordChar(text[s])) # (s > 1 /\ IsWordChar(text[s - 1]))

\* start of the match of  \b[\w{accents}]+\b[^\w{accents}]*$  (0: no match).
\* The match must run to the end of the line, so its word part ends at the
\* last word-or-accent character e, which \b forces to be a \w character;
\* it starts at the leftmost \b inside the run that ends at e.
LastWordStart(line) ==
  LET wa == {k \in 1..Len(line) : IsWordOrAccent(line[k])}
  IN IF wa = {} THEN 0
     ELSE LET e == SetMax(wa)
              r == SetMin({k \in 1..e : \A m \in k..e : IsWordOrAccent(line[m])})
              starts == {k \in r..e : WordBoundaryAt(line, k)}
          IN IF ~IsWordChar(line[e]) \/ starts = {} THEN 0 ELSE SetMin(starts)

\* PoemPostprocessor.find_last_word: match.group() or None
find_last_word(line) ==
  IF LastWordStart(line) = 0 THEN None
  ELSE SubSeq(line, LastWordStart(line), Len(line))

\* PoemPostprocessor.replace_last_word: re.sub(pattern, replacement, line)
replace_last_word(line, replacement) ==
  IF LastWordStart(line) = 0 THEN line
  ELSE SubSeq(line, 1, LastWordStart(line) - 1) \o replacement

(***************************************************************************)
(* Word-ending index                                                       *)
(***************************************************************************)
\* the emotion names of PoemPostprocessor._euclidean_distance
EMOTIONS == {"anger", "no_emotion", "fear", "joy", "sadness", "surprise"}

\* dict.get(e, 0.0) on an emotion vector
EmotionGet(vec, e) == IF e \in DOMAIN vec THEN vec[e] ELSE 0

\* the accented words the dictionary is built from, with the emotion vector
\* the classifier gave each one (кот, рот, пот, дам, да)
Lexicon ==
  << [accented_word |-> <<"k", "o", "ACUTE", "t">>, emotions |-> [joy |-> 1]],
     [accented_word |-> <<"r", "o", "ACUTE", "t">>, emotions |-> [anger |-> 1]],
     [accented_word |-> <<"p", "o", "ACUTE", "t">>, emotions |-> [sadness |-> 1]],
     [accented_word |-> <<"d", "a", "ACUTE", "m">>, emotions |-> [joy |-> 1]],
     [accented_word |-> <<"d", "a", "ACUTE">>, emotions |-> [anger |-> 1]] >>

\* build_word_endings_dict: one word_data entry
WordData(lex) ==
  [word |-> remove_accents(lex.accented_word),
   accented_word |-> lex.accented_word,
   rhyme_key |-> extract_rhyme_key(lex.accented_word),
   emotions |-> lex.emotions]

\* build_word_endings_dict: word_endings_dict[rhyme_key].append(word_data)
BuildWordEndingsDict ==
  LET data == [k \in 1..Len(Lexicon) |-> WordData(Lexicon[k])]
      keys == {data[k].rhyme_key : k \in 1..Len(data)} \ {None}
  IN [key \in keys |-> SelectSeq(data, LAMBDA d : d.rhyme_key = key)]

\* word_endings_dict.get(rhyme_key, [])
DictGet(dict, rhyme_key) ==
  IF rhyme_key \in DOMAIN dict THEN dict[rhyme_key] ELSE <<>>

\* find_candidates with a lookup that falls back to the whole dictionary for
\* an unknown key
find_candidates_fallback(dict, rhyme_key, words_to_exclude) ==
  LET all == IF rhyme_key \in DOMAIN dict THEN dict[rhyme_key]
             ELSE dict[CHOOSE key \in DOMAIN dict : TRUE]
  IN IF ~(\A k \in 1..Len(all) : all[k].word \in words_to_exclude)
     THEN SelectSeq(all, LAMBDA c : c.word \notin words_to_exclude)
     ELSE all

\* find_candidates that filters also when nothing is left
find_candidates_strict(dict, rhyme_key, words_to_exclude) ==
  SelectSeq(DictGet(dict, rhyme_key), LAMBDA c : c.word \notin words_to_exclude)

\* PoemPostprocessor.find_candidates
find_candidates(dict, rhyme_key, words_to_exclude) ==
  LET all == DictGet(dict, rhyme_key)
  IN IF ~(\A k \in 1..Len(all) : all[k].word \in words_to_exclude)
     THEN SelectSeq(all, LAMBDA c : c.word \notin words_to_exclude)
     ELSE all

(***************************************************************************)
(* Candidate selector                                                      *)
(***************************************************************************)
\* top_p = 0.9 as the fraction TopPNum / TopPDen
TopPNum == 9
TopPDen == 10

\* PoemPostprocessor._euclidean_distance, squared (emotion values are 0 or 1)
RECURSIVE SumOver(_, _)
SumOver(S, f) ==
  IF S = {} THEN 0
  ELSE LET e == CHOOSE e \in S : TRUE IN f[e] + SumOver(S \ {e}, f)

euclidean_distance_sq(vec1, vec2) ==
  SumOver(EMOTIONS,
          [e \in EMOTIONS |->
             (EmotionGet(vec1, e) - EmotionGet(vec2, e))
               * (EmotionGet(vec1, e) - EmotionGet(vec2, e))])

\* np.exp(-distance), in thousandths, by the squared distance 0..6
ExpNeg == <<1000, 368, 243, 177, 135, 107, 86>>

\* probs before normalisation: exp(-distance) of every candidate
Weights(cands, target_emotion) ==
  [k \in 1..Len(cands) |->
     ExpNeg[euclidean_distance_sq(cands[k].emotions, target_emotion) + 1]]

RECURSIVE SeqSum(_, _)
SeqSum(f, n) == IF n = 0 THEN 0 ELSE f[n] + SeqSum(f, n - 1)

\* probabilities are floating-point numbers: a quotient is rounded to the
\* nearest representable value, here the nearest multiple of 1 / ProbScale
ProbScale == 1000
RoundDiv(a, b) == (2 * a + b) \div (2 * b)

\* probs /= probs.sum()
Probs(w) == [k \in 1..Len(w) |-> RoundDiv(w[k] * ProbScale, SeqSum(w, Len(w)))]

\* np.argsort(-probs): every order of the indices by descending probability
\* (the order of equal probabilities is not fixed by the sort)
SortedIndices(w) ==
  {perm \in [1..Len(w) -> 1..Len(w)] :
     /\ \A a, b \in 1..Len(w) : a # b => perm[a] # perm[b]
     /\ \A a \in 1..(Len(w) - 1) : Probs(w)[perm[a]] >= Probs(w)[perm[a + 1]]}

\* np.cumsum(probs[sorted_indices])
CumulativeProbs(w, perm) ==
  [k \in 1..Len(w) |-> SeqSum([j \in 1..k |-> Probs(w)[perm[j]]], k)]

\* the selection that keeps every index when none is within top_p
TopIndicesAll(w, perm, num, den) ==
  LET cumulative_probs == CumulativeProbs(w, perm)
      kept == {perm[k] : k \in {k \in 1..Len(w) :
                                  cumulative_probs[k] * den <= num * ProbScale}}
  IN IF kept = {} THEN 1..Len(w) ELSE kept

\* sorted_indices[cumulative_probs <= top_p], or [sorted_indices[0]] if empty,
\* for top_p = num / den
TopIndicesAt(w, perm, num, den) ==
  LET cumulative_probs == CumulativeProbs(w, perm)
      kept == {perm[k] : k \in {k \in 1..Len(w) :
                                  cumulative_probs[k] * den <= num * ProbScale}}
  IN IF kept = {} THEN {perm[1]} ELSE kept

\* the selection at the default top_p
TopIndices(w, perm) == TopIndicesAt(w, perm, TopPNum, TopPDen)

\* choose_word_top_p returning the candidate's accented_word field
choose_word_top_p_accented(cands, target_emotion) ==
  LET w == Weights(cands, target_emotion)
  IN {cands[k].accented_word :
        k \in UNION {TopIndices(w, perm) : perm \in SortedIndices(w)}}

\* PoemPostprocessor.choose_word_top_p: the words np.random.choice can return
choose_word_top_p(cands, target_emotion) ==
  LET w == Weights(cands, target_emotion)
  IN {cands[k].word : k \in UNION {TopIndices(w, perm) : perm \in SortedIndices(w)}}

(***************************************************************************)
(* Syllable analyzer                                                       *)
(***************************************************************************)
\* str.split(sep) / re.split(class): the pieces between the separators
RECURSIVE SplitOn(_, _)
SplitOn(text, seps) ==
  LET at == {k \in 1..Len(text) : text[k] \in seps}
  IN IF at = {} THEN <<text>>
     ELSE <<SubSeq(text, 1, SetMin(at) - 1)>>
          \o SplitOn(SubSeq(text, SetMin(at) + 1, Len(text)), seps)

\* pyphen_dic.inserted (external library): the text with "-" at its
\* hyphenation points.  Modelled with a point after every vowel that is
\* followed by another vowel later in the same run of letters.
RECURSIVE pyphen_inserted(_)
pyphen_inserted(text) ==
  IF Len(text) = 0 THEN text
  ELSE LET stops == {k \in 2..Len(text) : ~IsLetter(text[k])}
           last == IF stops = {} THEN Len(text) ELSE SetMin(stops) - 1
           point == /\ text[1] \in VOWELS
                    /\ \E k \in 2..last : text[k] \in VOWELS
       IN (IF point THEN <<text[1], "-">> ELSE <<text[1]>>)
          \o pyphen_inserted(Tail(text))

\* syllable_split(word)
syllable_split(word) == SplitOn(pyphen_inserted(remove_accents(lower(word))), {"-"})

\* count_syllables(word)
count_syllables(word) == Len(syllable_split(word))

\* re.findall(r'\w+', text): the maximal runs of word characters
RECURSIVE WordTokens(_)
WordTokens(text) ==
  LET ws == {k \in 1..Len(text) : IsWordChar(text[k])}
  IN IF ws = {} THEN <<>>
     ELSE LET b == SetMin(ws)
              e == SetMax({j \in b..Len(text) : \A m \in b..j : IsWordChar(text[m])})
          IN <<SubSeq(text, b, e)>> \o WordTokens(SubSeq(text, e + 1, Len(text)))

\* sum(count_syllables(word) for word in words)
RECURSIVE SumSyllables(_)
SumSyllables(words) ==
  IF Len(words) = 0 THEN 0
  ELSE count_syllables(words[1]) + SumSyllables(Tail(words))

\* line_syllable_count(line)
line_syllable_count(line) == SumSyllables(WordTokens(remove_accents(lower(line))))

(***************************************************************************)
(* Line splitter                                                           *)
(***************************************************************************)
\* punctuation_pattern = [,;:—–…]
SPLIT_PUNCTUATION == {",", ";", ":", "EMDASH", "ENDASH", "ELLIPSIS"}

\* a part put into temp_line without the punctuation that followed it
PartAlone(part, punctuations, idx) == strip(part)

\* part.strip(), and punctuations[idx] + " " if idx < len(punctuations)
\* (idx counts from 1 here)
PartWithPunctuation(part, punctuations, idx) ==
  strip(part) \o (IF idx <= Len(punctuations) THEN <<punctuations[idx], " ">> ELSE <<>>)

\* the test of the loop without the syllables of the part
JoinsPartLoose(temp_syllables, syllables, temp_line, max_syllables) ==
  temp_syllables <= max_syllables \/ Len(temp_line) = 0

\* if temp_syllables + syllables <= max_syllables or not temp_line
JoinsPart(temp_syllables, syllables, temp_line, max_syllables) ==
  temp_syllables + syllables <= max_syllables \/ Len(temp_line) = 0

\* for idx, part in enumerate(parts): ... from part idx on.  temp_parts and
\* joined record which parts went into temp_line and into each new line.
RECURSIVE SplitParts(_, _, _, _, _)
SplitParts(st, parts, punctuations, idx, max_syllables) ==
  IF idx > Len(parts) THEN st
  ELSE LET syllables == count_syllables(strip(parts[idx]))
           piece == PartWithPunctuation(parts[idx], punctuations, idx)
       IN SplitParts(
            IF JoinsPart(st.temp_syllables, syllables, st.temp_line, max_syllables)
            THEN [st EXCEPT !.temp_line = @ \o piece,
                            !.temp_syllables = @ + syllables,
                            !.temp_parts = Append(@, idx)]
            ELSE [new_lines |-> Append(st.new_lines, strip(st.temp_line)),
                  joined |-> Append(st.joined, st.temp_parts),
                  temp_line |-> piece,
                  temp_syllables |-> syllables,
                  temp_parts |-> <<idx>>,
                  split_made |-> TRUE],
            parts, punctuations, idx + 1, max_syllables)

\* the body of  for line in lines:  the new lines of one line, and the parts
\* each of them joins
split_long_line(line, max_syllables) ==
  IF count_syllables(line) > max_syllables
  THEN LET parts == SplitOn(line, SPLIT_PUNCTUATION)
           punctuations == SelectSeq(line, LAMBDA c : c \in SPLIT_PUNCTUATION)
           st == SplitParts([new_lines |-> <<>>, joined |-> <<>>, temp_line |-> <<>>,
                             temp_syllables |-> 0, temp_parts |-> <<>>,
                             split_made |-> FALSE],
                            parts, punctuations, 1, max_syllables)
       IN [new_lines |-> IF st.split_made
                         THEN Append(st.new_lines, strip(st.temp_line))
                         ELSE Append(st.new_lines, line),
           joined |-> Append(st.joined, st.temp_parts),
           parts |-> parts]
  ELSE [new_lines |-> <<line>>, joined |-> << <<1>> >>, parts |-> <<line>>]

\* PoemPostprocessor.split_long_lines
RECURSIVE split_long_lines(_, _)
split_long_lines(lines, max_syllables) ==
  IF Len(lines) = 0 THEN <<>>
  ELSE split_long_line(lines[1], max_syllables).new_lines
       \o split_long_lines(Tail(lines), max_syllables)

(***************************************************************************)
(* Trailing-line trimmer                                                   *)
(***************************************************************************)
\* drop_last_short_line that drops a last line at the threshold as well
drop_last_short_line_inclusive(lines, threshold) ==
  IF Len(lines) > 0 /\ count_syllables(lines[Len(lines)]) <= threshold
  THEN SubSeq(lines, 1, Len(lines) - 1)
  ELSE lines

\* PoemPostprocessor.drop_last_short_line
drop_last_short_line(lines, threshold) ==
  IF Len(lines) > 0 /\ count_syllables(lines[Len(lines)]) < threshold
  THEN SubSeq(lines, 1, Len(lines) - 1)
  ELSE lines

(***************************************************************************)
(* Scheme imputation                                                       *)
(***************************************************************************)
\* letters = list(string.ascii_uppercase)
ASCII_UPPERCASE ==
  <<"A", "B", "C", "D", "E", "F", "G", "H", "I", "J", "K", "L", "M",
    "N", "O", "P", "Q", "R", "S", "T", "U", "V", "W", "X", "Y", "Z">>

\* used_letters = set(filter(lambda c: c in letters, rhyme_scheme))
UsedLetters(rhyme_scheme) ==
  {rhyme_scheme[k] : k \in 1..Len(rhyme_scheme)}
    \cap {ASCII_UPPERCASE[k] : k \in 1..Len(ASCII_UPPERCASE)}

\* while letters[next_letter_index] in used_letters: next_letter_index += 1,
\* `return None` when it reaches len(letters); 0 stands for that return
\* (next_letter_index counts from 1 here)
RECURSIVE NextUnused(_, _)
NextUnused(next_letter_index, used_letters) ==
  IF ASCII_UPPERCASE[next_letter_index] \notin used_letters THEN next_letter_index
  ELSE IF next_letter_index + 1 > Len(ASCII_UPPERCASE) THEN 0
       ELSE NextUnused(next_letter_index + 1, used_letters)

\* used_letters left as it was after a letter has been given out
UsedKept(used_letters, new_letter) == used_letters

\* used_letters.add(new_letter)
UsedAdd(used_letters, new_letter) == used_letters \cup {new_letter}

\* for char in rhyme_scheme: ... from place k on
RECURSIVE ImputeFrom(_, _, _, _, _)
ImputeFrom(rhyme_scheme, k, used_letters, next_letter_index, imputed_scheme) ==
  IF k > Len(rhyme_scheme) THEN imputed_scheme
  ELSE IF rhyme_scheme[k] = "-"
       THEN LET next == NextUnused(next_letter_index, used_letters)
            IN IF next = 0 THEN None
               ELSE ImputeFrom(rhyme_scheme, k + 1,
                               UsedAdd(used_letters, ASCII_UPPERCASE[next]), next,
                               Append(imputed_scheme, ASCII_UPPERCASE[next]))
       ELSE ImputeFrom(rhyme_scheme, k + 1, used_letters, next_letter_index,
                       Append(imputed_scheme, rhyme_scheme[k]))

\* impute_rhyme_scheme(rhyme_scheme)
impute_rhyme_scheme(rhyme_scheme) ==
  ImputeFrom(rhyme_scheme, 1, UsedLetters(rhyme_scheme), 1, <<>>)

(***************************************************************************)
(* Inputs                                                                  *)
(***************************************************************************)
\* enum RhymeScheme
ABAB == <<"A", "B", "A", "B">>
ABBA == <<"A", "B", "B", "A">>
AABB == <<"A", "A", "B", "B">>
BACA == <<"B", "A", "C", "A">>
RhymeScheme == {ABAB, ABBA, AABB, BACA}

\* the lines poems are made of:
\*   "Да кот"   a plain line, rhyme key "от"
\*   "рот,"     a line with trailing punctuation, rhyme key "от"
\*   "дам"      a line whose key "ам" has one dictionary entry, its own word
\*   "да́"      a line that already carries a stress mark, at its end
\*   "ну"       a line whose key "у" is not in the dictionary
\*   ","        a line without a word (no key, nothing to replace)
LineDaKot == <<"D", "a", " ", "k", "o", "t">>
LineRotComma == <<"r", "o", "t", ",">>
LineDam == <<"d", "a", "m">>
LineDaAccented == <<"d", "a", "ACUTE">>
LineNu == <<"n", "u">>
LineComma == <<",">>
LinePool == {LineDaKot, LineRotComma, LineDam, LineDaAccented, LineNu, LineComma}

\* the longest poem
MaxLines == 6

\* a poem alternates two lines of the pool: x, y, x, y, ... (n lines),
\* or does so after its first line said twice: x, x, y, x, y, ...
Alternate(pair, n) == [k \in 1..n |-> IF k % 2 = 1 THEN pair[1] ELSE pair[2]]
LeadThen(pair, n) ==
  [k \in 1..n |-> IF k = 1 \/ k % 2 = 0 THEN pair[1] ELSE pair[2]]
Poems ==
  {Alternate(pair, n) : pair \in LinePool \X LinePool, n \in 0..MaxLines}
    \cup {LeadThen(pair, n) : pair \in LinePool \X LinePool, n \in 0..MaxLines}

\* the target emotion vectors of a request
EmotionVectors == {[joy |-> 1], [anger |-> 1]}

\* the requests that run concurrently: two-line poems
ConcurrentPoems ==
  {Alternate(pair, Len(pair)) : pair \in {LineDaKot, LineRotComma} \X {LineDaKot, LineRotComma}}
ConcurrentSchemes == {AABB, ABBA}

\* the request threads of the Flask server
Procs == {1, 2}

\* the retry limit of the collision loop
MaxAttempts == 5

(***************************************************************************)
(* Telegram bot: the owner list (util/telegram/restrictions.py)            *)
(***************************************************************************)
\* owner_id.strip()
StripEntry(owner_id) == IF owner_id = " 2" THEN "2" ELSE owner_id

\* clean_id.isdigit()
IsDigit(clean_id) == clean_id \in {"1", "2"}

\* int(clean_id)
EntryToInt(clean_id) == IF clean_id = "1" THEN 1 ELSE 2

RECURSIVE OwnerIdsFrom(_, _)
OwnerIdsFrom(entries, k) ==
  IF k > Len(entries) THEN <<>>
  ELSE LET clean_id == StripEntry(entries[k])
       IN (IF IsDigit(clean_id) THEN <<EntryToInt(clean_id)>> ELSE <<>>)
            \o OwnerIdsFrom(entries, k + 1)

\* get_owner_ids(): [] for an unset or blank variable, otherwise the entries
\* that are digits after strip(), as integers
get_owner_ids(env) == IF env = <<>> THEN <<>> ELSE OwnerIdsFrom(env, 1)

\* the variable as it was when the handlers were decorated
InitialOwnerEnv == <<"1">>

\* a provider that keeps the list it read first
owner_ids_at_decoration(env) == get_owner_ids(InitialOwnerEnv)

\* owner_ids_provider(), by default get_owner_ids
owner_ids_provider(env) == get_owner_ids(env)

\* message.from_user.id in authorized_ids
InList(id, ids) == \E k \in 1..Len(ids) : ids[k] = id

(***************************************************************************)
(* Telegram bot: the ratings table (database/database.py)                  *)
(***************************************************************************)
\* session.query(GenerationRating).filter_by(rater_id, generation_id)
RatingsBy(rows, rater_id, generation_id) ==
  SelectSeq(rows, LAMBDA row :
    row.rater_id = rater_id /\ row.generation_id = generation_id)

\* Database.has_user_rated
has_user_rated(rows, rater_id, generation_id) ==
  RatingsBy(rows, rater_id, generation_id) # <<>>

\* Database.rate_generation: add the row when the pair has none
rate_generation(rows, rater_id, generation_id, rating) ==
  IF RatingsBy(rows, rater_id, generation_id) = <<>>
  THEN Append(rows, [rater_id |-> rater_id, generation_id |-> generation_id,
                     rating |-> rating])
  ELSE rows

\* the table after a handler that keeps the last rating of a pair
RatingsAfterLastWins(rows, user_id, generation_id, rating_value) ==
  Append(SelectSeq(rows, LAMBDA row :
           ~(row.rater_id = user_id /\ row.generation_id = generation_id)),
         [rater_id |-> user_id, generation_id |-> generation_id,
          rating |-> rating_value])

\* the table after rating_handler: nothing for a pair already rated,
\* otherwise rate_generation
RatingsAfter(rows, user_id, generation_id, rating_value) ==
  IF has_user_rated(rows, user_id, generation_id)
  THEN rows
  ELSE rate_generation(rows, user_id, generation_id, rating_value)

(***************************************************************************)
(* Telegram bot: inputs                                                    *)
(***************************************************************************)
\* the values NPB_OWNER_USER_IDS takes
OwnerEnvs == {<<>>, <<"1">>, <<"1", " 2">>, <<"x", "2">>, <<"", "-3">>}

\* the senders of messages and of rating callbacks
Senders == {1, 2, 3}
Raters == {1, 2}

\* the commands wrapped by owner_only_command
Commands == {"owners", "get_feedback"}

\* the generations rated and the ratings given
Generations == {1, 2}
RatingValues == {1, 5}

\* the updates the dispatcher handles at the same time
Updates == {1, 2}

\* no message, no callback query
NoMessage == [from_user |-> 0, command |-> "none"]
NoCallback == [from_user |-> 0, data |-> <<"rating", 0, 0>>]

\* the (rater, generation) pairs
RatingPairs == Raters \X Generations

(***************************************************************************)
(* State                                                                   *)
(***************************************************************************)
VARIABLES
  word_endings_dict,  \* self.word_endings_dict
  used_words,         \* self.used_words, as the set of <<letter, word>> it holds
  pc,                 \* where each thread is in enforce_rhyme_scheme
  poem_lines,         \* the arguments of the call
  scheme,
  poem_emotion,
  corrected_lines,    \* the locals of the call
  i_block,
  rhyme_groups,
  g_pos,
  rhyme_key,
  candidates,
  t_pos,
  chosen_word,
  attempts,
  sampled,            \* history: the line indices choose_word_top_p was called for
  accepted,           \* history: <<line index, letter, word>> of every ledger add
  own_block,          \* history: the <<letter, word>> this call added in its block
  wiped,              \* history: the last clear() of this call removed something
  fn,                 \* the function called last on its own, outside a request
  fn_args,            \* its arguments
  fn_result,          \* what it returned
  owner_env,          \* NPB_OWNER_USER_IDS, as its entries between the commas
  msg_pc,             \* where each wrapped command handler is
  message,            \* the message it was called with
  authorized_ids,     \* its local authorized_ids
  ran,                \* history: which of handler and default_action it ran
  generation_ratings, \* the rows of the table generation_ratings
  cb_pc,              \* where each rating_handler is
  callback,           \* the callback query it was called with
  first_rating,       \* history: the first rating handled for each pair
  emotion_api,        \* GlobalState._emotion_api, as the session it holds
  poetry_api,         \* GlobalState._poetry_api, as the session it holds
  database,           \* GlobalState._database, as the number of the instance
  engine,             \* the connection pool of its engine
  closing,            \* GlobalState.close() is awaiting session.close()
  session,            \* GlobalState._session
  sessions,           \* every aiohttp.ClientSession created: open or closed
  last_call           \* the last method of GlobalState called and its result

shared == <<word_endings_dict, used_words>>
args == <<poem_lines, scheme, poem_emotion>>
locals == <<corrected_lines, i_block, rhyme_groups, g_pos, rhyme_key, candidates,
            t_pos, chosen_word, attempts>>
history == <<sampled, accepted, own_block, wiped>>
calls == <<fn, fn_args, fn_result>>
owners == <<owner_env, msg_pc, message, authorized_ids, ran>>
ratings == <<generation_ratings, cb_pc, callback, first_rating>>
global_state ==
  <<emotion_api, poetry_api, database, engine, closing, session, sessions, last_call>>
bot == <<owners, ratings, global_state>>
poetry == <<shared, pc, args, locals, history, calls>>
vars == <<poetry, bot>>

\* the value of a local that is not set
NoWord == <<>>

(***************************************************************************)
(* enforce_rhyme_scheme                                                    *)
(***************************************************************************)
\* the number of blocks: (lines_length + scheme_length - 1) // scheme_length
BlockCount(lines_length, scheme_length) ==
  (lines_length + scheme_length - 1) \div scheme_length

\* rhyme_groups.setdefault(letter, []).append(idx_global) on the list of
\* <<letter, indices>> pairs kept in insertion order
GroupAppend(groups, letter, idx_global) ==
  IF \E k \in 1..Len(groups) : groups[k][1] = letter
  THEN [k \in 1..Len(groups) |->
          IF groups[k][1] = letter
          THEN <<letter, Append(groups[k][2], idx_global)>> ELSE groups[k]]
  ELSE Append(groups, <<letter, <<idx_global>> >>)

\* the loop that builds rhyme_groups for block i (indices count from 0)
RECURSIVE GroupsFrom(_, _, _, _, _)
GroupsFrom(sch, i, lines_length, idx, groups) ==
  IF idx >= Len(sch) THEN groups
  ELSE LET idx_global == idx + i * Len(sch)
       IN GroupsFrom(sch, i, lines_length, idx + 1,
                     IF idx_global < lines_length
                     THEN GroupAppend(groups, sch[idx + 1], idx_global)
                     ELSE groups)

\* the groups taken without the offset of the block (idx for idx_global)
RhymeGroupsOfFirstBlock(sch, i, lines_length) == GroupsFrom(sch, 0, lines_length, 0, <<>>)

\* rhyme_groups of block i
RhymeGroups(sch, i, lines_length) == GroupsFrom(sch, i, lines_length, 0, <<>>)

\* the key of the reference line taken without the stress annotation
RefRhymeKeyRaw(ref_line) == extract_rhyme_key(ref_line)

\* the key of the reference line: extract_rhyme_key(self._accent_text(ref_line))
RefRhymeKey(ref_line) == extract_rhyme_key(accent_text(ref_line))

\* the key the loop compares with it: extract_rhyme_key(original_line)
TargetRhymeKey(original_line) == extract_rhyme_key(original_line)

\* the candidates of a group: find_candidates(rhyme_key, [ref_line_last_word])
GroupCandidates(dict, ref_line) ==
  find_candidates(dict, RefRhymeKey(ref_line), {find_last_word(ref_line)})

\* the condition of the collision loop with the limit off by one
CollidesOffByOne(ledger, letter, word, n) ==
  /\ \E e \in ledger : e[1] = letter
  /\ <<letter, word>> \in ledger
  /\ n <= MaxAttempts

\* the condition of the collision loop
Collides(ledger, letter, word, n) ==
  /\ \E e \in ledger : e[1] = letter
  /\ <<letter, word>> \in ledger
  /\ n < MaxAttempts

\* a clear() that leaves the ledger as it is
LedgerKeep(ledger) == ledger

\* self.used_words.clear()
LedgerClear(ledger) == {}

\* self.used_words.setdefault(letter, set()).add(chosen_word)
LedgerAdd(ledger, letter, word) == ledger \cup {<<letter, word>>}

\* the group and the target a thread is at
CurGroup(p) == rhyme_groups[p][g_pos[p]]
CurLetter(p) == CurGroup(p)[1]
CurIndices(p) == CurGroup(p)[2]
\* the reference line taken for the target
CurIdxReference(p) == CurIndices(p)[1]
\* idx of  for idx in indices[1:]
CurIdx(p) == CurIndices(p)[t_pos[p]]
Line(lines, idx) == lines[idx + 1]

Idle(p) == pc[p] = "idle"

ResetLocals(p) ==
  /\ corrected_lines' = [corrected_lines EXCEPT ![p] = <<>>]
  /\ i_block' = [i_block EXCEPT ![p] = 0]
  /\ rhyme_groups' = [rhyme_groups EXCEPT ![p] = <<>>]
  /\ g_pos' = [g_pos EXCEPT ![p] = 0]
  /\ rhyme_key' = [rhyme_key EXCEPT ![p] = None]
  /\ candidates' = [candidates EXCEPT ![p] = <<>>]
  /\ t_pos' = [t_pos EXCEPT ![p] = 0]
  /\ chosen_word' = [chosen_word EXCEPT ![p] = NoWord]
  /\ attempts' = [attempts EXCEPT ![p] = 0]

Init ==
  /\ word_endings_dict = BuildWordEndingsDict
  /\ used_words = {}
  /\ pc = [p \in Procs |-> "idle"]
  /\ poem_lines = [p \in Procs |-> <<>>]
  /\ scheme = [p \in Procs |-> ABBA]
  /\ poem_emotion = [p \in Procs |-> [joy |-> 1]]
  /\ corrected_lines = [p \in Procs |-> <<>>]
  /\ i_block = [p \in Procs |-> 0]
  /\ rhyme_groups = [p \in Procs |-> <<>>]
  /\ g_pos = [p \in Procs |-> 0]
  /\ rhyme_key = [p \in Procs |-> None]
  /\ candidates = [p \in Procs |-> <<>>]
  /\ t_pos = [p \in Procs |-> 0]
  /\ chosen_word = [p \in Procs |-> NoWord]
  /\ attempts = [p \in Procs |-> 0]
  /\ sampled = [p \in Procs |-> {}]
  /\ accepted = [p \in Procs |-> {}]
  /\ own_block = [p \in Procs |-> {}]
  /\ wiped = [p \in Procs |-> FALSE]
  /\ fn = "none"
  /\ fn_args = <<>>
  /\ fn_result = <<>>
  /\ owner_env = InitialOwnerEnv
  /\ msg_pc = [u \in Updates |-> "idle"]
  /\ message = [u \in Updates |-> NoMessage]
  /\ authorized_ids = [u \in Updates |-> <<>>]
  /\ ran = [u \in Updates |-> <<>>]
  /\ generation_ratings = <<>>
  /\ cb_pc = [u \in Updates |-> "idle"]
  /\ callback = [u \in Updates |-> NoCallback]
  /\ first_rating = [pair \in RatingPairs |-> 0]
  /\ emotion_api = 0
  /\ poetry_api = 0
  /\ database = 0
  /\ engine = "none"
  /\ closing = FALSE
  /\ session = 0
  /\ sessions = <<>>
  /\ last_call = [method |-> "__init__", result |-> 0]

\* the call: scheme = rhyme_scheme.value; corrected_lines = poem_lines.copy()
Enter(p, lines, sch, emotion) ==
  /\ pc' = [pc EXCEPT ![p] = "block"]
  /\ poem_lines' = [poem_lines EXCEPT ![p] = lines]
  /\ scheme' = [scheme EXCEPT ![p] = sch]
  /\ poem_emotion' = [poem_emotion EXCEPT ![p] = emotion]
  /\ corrected_lines' = [corrected_lines EXCEPT ![p] = lines]
  /\ i_block' = [i_block EXCEPT ![p] = 0]
  /\ sampled' = [sampled EXCEPT ![p] = {}]
  /\ accepted' = [accepted EXCEPT ![p] = {}]
  /\ own_block' = [own_block EXCEPT ![p] = {}]
  /\ wiped' = [wiped EXCEPT ![p] = FALSE]
  /\ UNCHANGED <<shared, rhyme_groups, g_pos, rhyme_key, candidates, t_pos,
                 chosen_word, attempts, calls, bot>>

\* a request is served while no other request is being served
Call(p) ==
  /\ \A q \in Procs : Idle(q)
  /\ \E lines \in Poems, sch \in RhymeScheme, emotion \in EmotionVectors :
       Enter(p, lines, sch, emotion)

\* a request is served while another one may be in enforce_rhyme_scheme
CallConcurrent(p) ==
  /\ Idle(p)
  /\ \E lines \in ConcurrentPoems, sch \in ConcurrentSchemes :
       Enter(p, lines, sch, [joy |-> 1])

\* for i in range(...): self.used_words.clear(); build rhyme_groups.
\* After the last block: return corrected_lines.
ForBlock(p) ==
  /\ pc[p] = "block"
  /\ IF i_block[p] < BlockCount(Len(poem_lines[p]), Len(scheme[p]))
     THEN /\ used_words' = LedgerClear(used_words)
          /\ rhyme_groups' = [rhyme_groups EXCEPT ![p] =
               RhymeGroups(scheme[p], i_block[p], Len(poem_lines[p]))]
          /\ g_pos' = [g_pos EXCEPT ![p] = 1]
          /\ pc' = [pc EXCEPT ![p] = "group"]
          /\ own_block' = [own_block EXCEPT ![p] = {}]
          /\ wiped' = [wiped EXCEPT ![p] = used_words # {}]
     ELSE /\ pc' = [pc EXCEPT ![p] = "done"]
          /\ UNCHANGED <<used_words, rhyme_groups, g_pos, own_block, wiped>>
  /\ UNCHANGED <<word_endings_dict, args, corrected_lines, i_block, rhyme_key,
                 candidates, t_pos, chosen_word, attempts, sampled, accepted>>

\* the group loop with `return corrected_lines` in place of `continue`
ForGroupAbort(p) ==
  /\ pc[p] = "group"
  /\ IF g_pos[p] > Len(rhyme_groups[p])
     THEN /\ i_block' = [i_block EXCEPT ![p] = @ + 1]
          /\ pc' = [pc EXCEPT ![p] = "block"]
          /\ g_pos' = [g_pos EXCEPT ![p] = 0]
          /\ rhyme_groups' = [rhyme_groups EXCEPT ![p] = <<>>]
          /\ UNCHANGED <<rhyme_key, candidates, t_pos>>
     ELSE LET ref_line == Line(poem_lines[p], CurIndices(p)[1])
              key == RefRhymeKey(ref_line)
              cands == GroupCandidates(word_endings_dict, ref_line)
          IN IF key = None \/ key = <<>> \/ cands = <<>>
             THEN /\ pc' = [pc EXCEPT ![p] = "done"]
                  /\ UNCHANGED <<g_pos, rhyme_key, candidates, t_pos, i_block,
                                 rhyme_groups>>
             ELSE /\ rhyme_key' = [rhyme_key EXCEPT ![p] = key]
                  /\ candidates' = [candidates EXCEPT ![p] = cands]
                  /\ t_pos' = [t_pos EXCEPT ![p] = 2]
                  /\ pc' = [pc EXCEPT ![p] = "target"]
                  /\ UNCHANGED <<g_pos, i_block, rhyme_groups>>
  /\ UNCHANGED <<shared, args, corrected_lines, chosen_word, attempts, history>>

\* for letter, indices in rhyme_groups.items(): reference line, key, candidates;
\* `continue` without a key or without candidates
ForGroup(p) ==
  /\ pc[p] = "group"
  /\ IF g_pos[p] > Len(rhyme_groups[p])
     THEN /\ i_block' = [i_block EXCEPT ![p] = @ + 1]
          /\ pc' = [pc EXCEPT ![p] = "block"]
          /\ g_pos' = [g_pos EXCEPT ![p] = 0]
          /\ rhyme_groups' = [rhyme_groups EXCEPT ![p] = <<>>]
          /\ UNCHANGED <<rhyme_key, candidates, t_pos>>
     ELSE LET ref_line == Line(poem_lines[p], CurIndices(p)[1])
              key == RefRhymeKey(ref_line)
              cands == GroupCandidates(word_endings_dict, ref_line)
          IN IF key = None \/ key = <<>> \/ cands = <<>>
             THEN /\ g_pos' = [g_pos EXCEPT ![p] = @ + 1]
                  /\ UNCHANGED <<pc, rhyme_key, candidates, t_pos, i_block,
                                 rhyme_groups>>
             ELSE /\ rhyme_key' = [rhyme_key EXCEPT ![p] = key]
                  /\ candidates' = [candidates EXCEPT ![p] = cands]
                  /\ t_pos' = [t_pos EXCEPT ![p] = 2]
                  /\ pc' = [pc EXCEPT ![p] = "target"]
                  /\ UNCHANGED <<g_pos, i_block, rhyme_groups>>
  /\ UNCHANGED <<shared, args, corrected_lines, chosen_word, attempts, history>>

\* for idx in indices[1:]: skip a line whose key equals the reference key,
\* otherwise sample the first word
ForTarget(p) ==
  /\ pc[p] = "target"
  /\ IF t_pos[p] > Len(CurIndices(p))
     THEN /\ g_pos' = [g_pos EXCEPT ![p] = @ + 1]
          /\ pc' = [pc EXCEPT ![p] = "group"]
          /\ rhyme_key' = [rhyme_key EXCEPT ![p] = None]
          /\ candidates' = [candidates EXCEPT ![p] = <<>>]
          /\ t_pos' = [t_pos EXCEPT ![p] = 0]
          /\ UNCHANGED <<chosen_word, attempts, sampled>>
     ELSE IF TargetRhymeKey(Line(poem_lines[p], CurIdx(p))) = rhyme_key[p]
          THEN /\ t_pos' = [t_pos EXCEPT ![p] = @ + 1]
               /\ UNCHANGED <<pc, g_pos, rhyme_key, candidates, chosen_word,
                              attempts, sampled>>
          ELSE /\ \E w \in choose_word_top_p(candidates[p], poem_emotion[p]) :
                    chosen_word' = [chosen_word EXCEPT ![p] = w]
               /\ attempts' = [attempts EXCEPT ![p] = 0]
               /\ sampled' = [sampled EXCEPT ![p] = @ \cup {CurIdx(p)}]
               /\ pc' = [pc EXCEPT ![p] = "while"]
               /\ UNCHANGED <<g_pos, rhyme_key, candidates, t_pos>>
  /\ UNCHANGED <<shared, args, corrected_lines, i_block, rhyme_groups, accepted,
                 own_block, wiped>>

\* while (letter in used_words and chosen_word in used_words[letter])
\*       and attempts < 5: sample again
While(p) ==
  /\ pc[p] = "while"
  /\ IF Collides(used_words, CurLetter(p), chosen_word[p], attempts[p])
     THEN /\ \E w \in choose_word_top_p(candidates[p], poem_emotion[p]) :
               chosen_word' = [chosen_word EXCEPT ![p] = w]
          /\ attempts' = [attempts EXCEPT ![p] = @ + 1]
          /\ UNCHANGED pc
     ELSE /\ pc' = [pc EXCEPT ![p] = "accept"]
          /\ UNCHANGED <<chosen_word, attempts>>
  /\ UNCHANGED <<shared, args, corrected_lines, i_block, rhyme_groups, g_pos,
                 rhyme_key, candidates, t_pos, history>>

\* the line written into poem_lines itself (corrected_lines not a copy)
AcceptInPlace(p) ==
  /\ pc[p] = "accept"
  /\ used_words' = LedgerAdd(used_words, CurLetter(p), chosen_word[p])
  /\ corrected_lines' = [corrected_lines EXCEPT ![p][CurIdx(p) + 1] =
       replace_last_word(Line(poem_lines[p], CurIdx(p)), chosen_word[p])]
  /\ accepted' = [accepted EXCEPT ![p] =
       @ \cup {<<CurIdx(p), CurLetter(p), chosen_word[p]>>}]
  /\ own_block' = [own_block EXCEPT ![p] = @ \cup {<<CurLetter(p), chosen_word[p]>>}]
  /\ t_pos' = [t_pos EXCEPT ![p] = @ + 1]
  /\ chosen_word' = [chosen_word EXCEPT ![p] = NoWord]
  /\ attempts' = [attempts EXCEPT ![p] = 0]
  /\ pc' = [pc EXCEPT ![p] = "target"]
  /\ poem_lines' = [poem_lines EXCEPT ![p][CurIdx(p) + 1] =
       replace_last_word(Line(poem_lines[p], CurIdx(p)), chosen_word[p])]
  /\ UNCHANGED <<word_endings_dict, scheme, poem_emotion, i_block, rhyme_groups,
                 g_pos, rhyme_key, candidates, sampled, wiped>>

\* record the word in the ledger and write the corrected line
Accept(p) ==
  /\ pc[p] = "accept"
  /\ used_words' = LedgerAdd(used_words, CurLetter(p), chosen_word[p])
  /\ corrected_lines' = [corrected_lines EXCEPT ![p][CurIdx(p) + 1] =
       replace_last_word(Line(poem_lines[p], CurIdx(p)), chosen_word[p])]
  /\ accepted' = [accepted EXCEPT ![p] =
       @ \cup {<<CurIdx(p), CurLetter(p), chosen_word[p]>>}]
  /\ own_block' = [own_block EXCEPT ![p] = @ \cup {<<CurLetter(p), chosen_word[p]>>}]
  /\ t_pos' = [t_pos EXCEPT ![p] = @ + 1]
  /\ chosen_word' = [chosen_word EXCEPT ![p] = NoWord]
  /\ attempts' = [attempts EXCEPT ![p] = 0]
  /\ pc' = [pc EXCEPT ![p] = "target"]
  /\ UNCHANGED <<word_endings_dict, args, i_block, rhyme_groups, g_pos, rhyme_key,
                 candidates, sampled, wiped>>

\* the caller takes the returned lines (generate_poem) and the request ends
Collect(p) ==
  /\ pc[p] = "done"
  /\ pc' = [pc EXCEPT ![p] = "idle"]
  /\ poem_lines' = [poem_lines EXCEPT ![p] = <<>>]
  /\ scheme' = [scheme EXCEPT ![p] = ABBA]
  /\ poem_emotion' = [poem_emotion EXCEPT ![p] = [joy |-> 1]]
  /\ ResetLocals(p)
  /\ sampled' = [sampled EXCEPT ![p] = {}]
  /\ accepted' = [accepted EXCEPT ![p] = {}]
  /\ own_block' = [own_block EXCEPT ![p] = {}]
  /\ wiped' = [wiped EXCEPT ![p] = FALSE]
  /\ UNCHANGED shared

Step(p) ==
  /\ \/ ForBlock(p)
     \/ ForGroup(p)
     \/ ForTarget(p)
     \/ While(p)
     \/ Accept(p)
     \/ Collect(p)
  /\ UNCHANGED <<calls, bot>>

\* requests served one after another
Next == \E p \in Procs : Call(p) \/ Step(p)
Spec == Init /\ [][Next]_vars

\* requests served by concurrent threads
NextConcurrent == \E p \in Procs : CallConcurrent(p) \/ Step(p)
SpecConcurrent == Init /\ [][NextConcurrent]_vars

(***************************************************************************)
(* The methods called on their own                                         *)
(***************************************************************************)
\* the rhyme keys asked for: the keys of the dictionary and the unknown "у"
RhymeKeys == DOMAIN BuildWordEndingsDict \cup {<<"u">>}

\* what words_to_exclude is made of: dictionary words, None (a line without
\* a last word) and a last word with its punctuation ("рот,")
ExcludePool ==
  {remove_accents(Lexicon[k].accented_word) : k \in 1..Len(Lexicon)}
    \cup {None, LineRotComma}

\* find_candidates(rhyme_key, words_to_exclude)
ApplyFindCandidates ==
  /\ fn = "none"
  /\ \E key \in RhymeKeys, exclude \in SUBSET ExcludePool :
       /\ fn' = "find_candidates"
       /\ fn_args' = [rhyme_key |-> key, words_to_exclude |-> exclude]
       /\ fn_result' = find_candidates(word_endings_dict, key, exclude)
  /\ UNCHANGED <<shared, pc, args, locals, history, bot>>

\* the longest candidate list
MaxCandidates == 3

\* the candidate lists: dictionary entries, none of them twice
CandidatePool == {WordData(Lexicon[k]) : k \in 1..Len(Lexicon)}
CandidateLists ==
  {cands \in UNION {[1..n -> CandidatePool] : n \in 1..MaxCandidates} :
     \A a, b \in 1..Len(cands) : a # b => cands[a] # cands[b]}

\* the target emotions, and the values of top_p as numerators over TopPDen
TargetEmotions == EmotionVectors \cup {[joy |-> 1, anger |-> 1]}
TopPNums == {0, 1, 5, 9, 10}

\* choose_word_top_p(candidates, target_emotion, top_p): the sort yields one
\* order, np.random.choice one index of top_indices
ApplyChooseWordTopP ==
  /\ fn = "none"
  /\ \E cands \in CandidateLists, emotion \in TargetEmotions, num \in TopPNums :
       \E perm \in SortedIndices(Weights(cands, emotion)) :
         \E chosen_index \in TopIndicesAt(Weights(cands, emotion), perm, num, TopPDen) :
           /\ fn' = "choose_word_top_p"
           /\ fn_args' = [candidates |-> cands, target_emotion |-> emotion,
                          top_p |-> <<num, TopPDen>>]
           /\ fn_result' =
                [sorted_indices |-> perm,
                 top_indices |-> TopIndicesAt(Weights(cands, emotion), perm, num, TopPDen),
                 word |-> cands[chosen_index].word]
  /\ UNCHANGED <<shared, pc, args, locals, history, bot>>

\* the longest line of text
MaxLineLen == 4

\* the lines of text: every sequence of the characters а я т ́ , and the
\* blank, every sequence of the characters и т ь й ́, and the runs of
\* punctuation put after a line
TextSeqs(chars, n) == UNION {[1..k -> chars] : k \in 0..n}
TextLines ==
  TextSeqs({"a", "ya", "t", "ACUTE", ",", " "}, MaxLineLen)
    \cup TextSeqs({"i", "t", "soft", "j", "ACUTE"}, MaxLineLen)
PunctuationRuns == {<<>>, <<",">>, <<"-", ",">>}

\* extract_rhyme_key(accented_line), and the same line with punctuation after it
ApplyExtractRhymeKey ==
  /\ fn = "none"
  /\ \E line \in TextLines, punctuation \in PunctuationRuns :
       /\ fn' = "extract_rhyme_key"
       /\ fn_args' = [accented_line |-> line, punctuation |-> punctuation]
       /\ fn_result' = [key |-> extract_rhyme_key(line),
                        key_punctuated |-> extract_rhyme_key(line \o punctuation)]
  /\ UNCHANGED <<shared, pc, args, locals, history, bot>>

\* the longest line given to the line splitter
MaxSplitLen == 6

\* the lines given to the line splitter: every sequence of the characters
\* а , ; and the blank; "аааа" is a line of four syllables without punctuation
SplitLines == TextSeqs({"a", ",", ";", " "}, MaxSplitLen)
LineUnsplittable == <<"a", "a", "a", "a">>
SplitPoems == {<<line>> : line \in SplitLines}
                \cup {<<line, LineUnsplittable>> : line \in SplitLines}
SyllableLimits == {1, 2, 3}

\* split_long_lines(lines, max_syllables)
ApplySplitLongLines ==
  /\ fn = "none"
  /\ \E lines \in SplitPoems, max_syllables \in SyllableLimits :
       /\ fn' = "split_long_lines"
       /\ fn_args' = [lines |-> lines, max_syllables |-> max_syllables]
       /\ fn_result' =
            [new_lines |-> split_long_lines(lines, max_syllables),
             per_line |-> [k \in 1..Len(lines) |-> split_long_line(lines[k], max_syllables)]]
  /\ UNCHANGED <<shared, pc, args, locals, history, bot>>

\* the poems given to the trailing-line trimmer: no line, one line, or a line
\* after an empty line or after "аааа"; the lines are made of а т and the blank
TrimLines == TextSeqs({"a", "t", " "}, MaxLineLen)
TrimPoems ==
  {<<>>} \cup {<<line>> : line \in TrimLines}
    \cup {<<first, line>> : first \in {<<>>, LineUnsplittable}, line \in TrimLines}
TrimThresholds == {1, 2, 3}

\* drop_last_short_line(lines, threshold)
ApplyDropLastShortLine ==
  /\ fn = "none"
  /\ \E lines \in TrimPoems, threshold \in TrimThresholds :
       /\ fn' = "drop_last_short_line"
       /\ fn_args' = [lines |-> lines, threshold |-> threshold]
       /\ fn_result' = drop_last_short_line(lines, threshold)
  /\ UNCHANGED <<shared, pc, args, locals, history, bot>>

\* the longest end of a scheme
MaxSchemeTail == 4

\* the schemes given to the imputation: the first letters of the alphabet
\* (none to all of them) and then up to MaxSchemeTail of - A B and the blank
SchemeTails == TextSeqs({"-", "A", "B", " "}, MaxSchemeTail)
Schemes ==
  {SubSeq(ASCII_UPPERCASE, 1, k) \o tail :
     k \in 0..Len(ASCII_UPPERCASE), tail \in SchemeTails}

\* impute_rhyme_scheme(rhyme_scheme)
ApplyImputeRhymeScheme ==
  /\ fn = "none"
  /\ \E rhyme_scheme \in Schemes :
       /\ fn' = "impute_rhyme_scheme"
       /\ fn_args' = rhyme_scheme
       /\ fn_result' = impute_rhyme_scheme(rhyme_scheme)
  /\ UNCHANGED <<shared, pc, args, locals, history, bot>>

\* count_syllables(word) and line_syllable_count(line) of the same text
ApplyCountSyllables ==
  /\ fn = "none"
  /\ \E text \in TrimLines :
       /\ fn' = "count_syllables"
       /\ fn_args' = text
       /\ fn_result' = [count |-> count_syllables(text),
                        line_count |-> line_syllable_count(text)]
  /\ UNCHANGED <<shared, pc, args, locals, history, bot>>

\* the call is over
Return ==
  /\ fn # "none"
  /\ fn' = "none"
  /\ fn_args' = <<>>
  /\ fn_result' = <<>>
  /\ UNCHANGED <<shared, pc, args, locals, history, bot>>

\* the methods of the postprocessor and the text utilities, one call at a time
NextFunctions ==
  \/ ApplyFindCandidates
  \/ ApplyChooseWordTopP
  \/ ApplyExtractRhymeKey
  \/ ApplySplitLongLines
  \/ ApplyDropLastShortLine
  \/ ApplyImputeRhymeScheme
  \/ ApplyCountSyllables
  \/ Return
SpecFunctions == Init /\ [][NextFunctions]_vars

(***************************************************************************)
(* Telegram bot: GlobalState (globals.py)                                  *)
(***************************************************************************)
\* get_emotion_api: the first call opens a ClientSession, keeps it in
\* _session and builds the EmotionAPI on it
get_emotion_api ==
  /\ IF emotion_api = 0
     THEN /\ sessions' = Append(sessions, "open")
          /\ session' = Len(sessions) + 1
          /\ emotion_api' = Len(sessions) + 1
     ELSE UNCHANGED <<sessions, session, emotion_api>>
  /\ last_call' = [method |-> "get_emotion_api", result |-> emotion_api']
  /\ UNCHANGED <<poetry_api, database, engine, closing>>
  /\ UNCHANGED <<poetry, owners, ratings>>

\* get_poetry_api: the same for the PoetryAPI
get_poetry_api ==
  /\ IF poetry_api = 0
     THEN /\ sessions' = Append(sessions, "open")
          /\ session' = Len(sessions) + 1
          /\ poetry_api' = Len(sessions) + 1
     ELSE UNCHANGED <<sessions, session, poetry_api>>
  /\ last_call' = [method |-> "get_poetry_api", result |-> poetry_api']
  /\ UNCHANGED <<emotion_api, database, engine, closing>>
  /\ UNCHANGED <<poetry, owners, ratings>>

\* get_database: the first call builds the Database
get_database ==
  /\ database' = IF database = 0 THEN 1 ELSE database
  /\ engine' = IF database = 0 THEN "pool" ELSE engine
  /\ last_call' = [method |-> "get_database", result |-> database']
  /\ UNCHANGED <<emotion_api, poetry_api, closing, session, sessions>>

\* close, up to its await: if self._session: await self._session.close()
close_session ==
  /\ ~closing
  /\ closing' = TRUE
  /\ sessions' = IF session # 0 THEN [sessions EXCEPT ![session] = "closed"]
                 ELSE sessions
  /\ last_call' = [method |-> "close", result |-> 0]
  /\ UNCHANGED <<emotion_api, poetry_api, database, engine, session>>
  /\ UNCHANGED <<poetry, owners, ratings>>

\* close, after its await: if self._database: self._database.engine.dispose()
close_dispose ==
  /\ closing
  /\ closing' = FALSE
  /\ engine' = IF database # 0 THEN "disposed" ELSE engine
  /\ last_call' = [method |-> "close", result |-> 1]
  /\ UNCHANGED <<emotion_api, poetry_api, database, session, sessions>>
  /\ UNCHANGED <<poetry, owners, ratings>>

\* a handler that only asks for the database (cmd_start and others)
call_get_database ==
  /\ get_database
  /\ UNCHANGED <<poetry, owners, ratings>>

NextGlobalState ==
  \/ get_emotion_api
  \/ get_poetry_api
  \/ call_get_database
  \/ close_session
  \/ close_dispose
SpecGlobalState == Init /\ [][NextGlobalState]_vars

(***************************************************************************)
(* Telegram bot: owner-only commands (restrictions.py, commands.py)        *)
(***************************************************************************)
\* the variable NPB_OWNER_USER_IDS changes
setenv(env) ==
  /\ owner_env' = env
  /\ UNCHANGED <<msg_pc, message, authorized_ids, ran, global_state>>
  /\ UNCHANGED <<poetry, ratings>>

\* wrapped(message): authorized_ids = owner_ids_provider(); the handler for a
\* sender in the list, default_action for any other
wrapped(u, sender, command) ==
  /\ msg_pc[u] = "idle"
  /\ message' = [message EXCEPT ![u] = [from_user |-> sender, command |-> command]]
  /\ authorized_ids' = [authorized_ids EXCEPT ![u] = owner_ids_provider(owner_env)]
  /\ msg_pc' = [msg_pc EXCEPT ![u] =
       IF InList(sender, owner_ids_provider(owner_env)) THEN "handler"
       ELSE "default_action"]
  /\ ran' = [ran EXCEPT ![u] = <<>>]
  /\ UNCHANGED <<owner_env, global_state>>
  /\ UNCHANGED <<poetry, ratings>>

\* cmd_owners: reply with the owner list
cmd_owners(u) ==
  /\ msg_pc[u] = "handler"
  /\ message[u].command = "owners"
  /\ ran' = [ran EXCEPT ![u] = Append(@, "handler")]
  /\ msg_pc' = [msg_pc EXCEPT ![u] = "return"]
  /\ UNCHANGED <<owner_env, message, authorized_ids, global_state>>
  /\ UNCHANGED <<poetry, ratings>>

\* cmd_get_feedback: database = await gs().get_database(); reply with the summary
cmd_get_feedback(u) ==
  /\ msg_pc[u] = "handler"
  /\ message[u].command = "get_feedback"
  /\ get_database
  /\ ran' = [ran EXCEPT ![u] = Append(@, "handler")]
  /\ msg_pc' = [msg_pc EXCEPT ![u] = "return"]
  /\ UNCHANGED <<owner_env, message, authorized_ids>>
  /\ UNCHANGED <<poetry, ratings>>

\* owner_only_permission_denied: reply that the command is for owners
owner_only_permission_denied(u) ==
  /\ msg_pc[u] = "default_action"
  /\ ran' = [ran EXCEPT ![u] = Append(@, "default_action")]
  /\ msg_pc' = [msg_pc EXCEPT ![u] = "return"]
  /\ UNCHANGED <<owner_env, message, authorized_ids, global_state>>
  /\ UNCHANGED <<poetry, ratings>>

\* wrapped returns what it awaited
wrapped_return(u) ==
  /\ msg_pc[u] = "return"
  /\ msg_pc' = [msg_pc EXCEPT ![u] = "idle"]
  /\ message' = [message EXCEPT ![u] = NoMessage]
  /\ authorized_ids' = [authorized_ids EXCEPT ![u] = <<>>]
  /\ ran' = [ran EXCEPT ![u] = <<>>]
  /\ UNCHANGED <<owner_env, global_state>>
  /\ UNCHANGED <<poetry, ratings>>

NextOwners ==
  \/ \E env \in OwnerEnvs : setenv(env)
  \/ \E u \in Updates :
       \/ \E sender \in Senders, command \in Commands : wrapped(u, sender, command)
       \/ cmd_owners(u)
       \/ cmd_get_feedback(u)
       \/ owner_only_permission_denied(u)
       \/ wrapped_return(u)
SpecOwners == Init /\ [][NextOwners]_vars

(***************************************************************************)
(* Telegram bot: rating callbacks (commands.py)                            *)
(***************************************************************************)
\* rating_handler up to its first suspension: get_database() returns without
\* suspending, the callback data "rating:<generation>:<value>" is parsed,
\* has_user_rated and rate_generation run one after the other
rating_handler(u, user_id, generation_id, rating_value) ==
  /\ cb_pc[u] = "idle"
  /\ get_database
  /\ callback' = [callback EXCEPT ![u] =
       [from_user |-> user_id, data |-> <<"rating", generation_id, rating_value>>]]
  /\ generation_ratings' =
       RatingsAfter(generation_ratings, user_id, generation_id, rating_value)
  /\ cb_pc' = [cb_pc EXCEPT ![u] =
       IF has_user_rated(generation_ratings, user_id, generation_id)
       THEN "answer_rated" ELSE "edit_reply_markup"]
  /\ first_rating' =
       IF first_rating[<<user_id, generation_id>>] = 0
       THEN [first_rating EXCEPT ![<<user_id, generation_id>>] = rating_value]
       ELSE first_rating
  /\ UNCHANGED <<poetry, owners>>

\* await callback.message.edit_reply_markup(reply_markup=None)
edit_reply_markup(u) ==
  /\ cb_pc[u] = "edit_reply_markup"
  /\ cb_pc' = [cb_pc EXCEPT ![u] = "answer"]
  /\ UNCHANGED <<generation_ratings, callback, first_rating, global_state>>
  /\ UNCHANGED <<poetry, owners>>

\* await callback.answer(...), of either branch; the handler returns
answer(u) ==
  /\ cb_pc[u] \in {"answer_rated", "answer"}
  /\ cb_pc' = [cb_pc EXCEPT ![u] = "idle"]
  /\ callback' = [callback EXCEPT ![u] = NoCallback]
  /\ UNCHANGED <<generation_ratings, first_rating, global_state>>
  /\ UNCHANGED <<poetry, owners>>

NextRatings ==
  \E u \in Updates :
    \/ \E user_id \in Raters, generation_id \in Generations,
          rating_value \in RatingValues :
         rating_handler(u, user_id, generation_id, rating_value)
    \/ edit_reply_markup(u)
    \/ answer(u)
SpecRatings == Init /\ [][NextRatings]_vars

(***************************************************************************)
(* Vocabulary of the properties                                            *)
(***************************************************************************)
Done(p) == pc[p] = "done"
LineIndices(p) == 0..(Len(poem_lines[p]) - 1)

\* the scheme letter of line idx and the first line of its block with that letter
LetterOf(sch, idx) == sch[(idx % Len(sch)) + 1]
ReferenceOf(sch, idx) ==
  LET first == idx - (idx % Len(sch))
  IN SetMin({j \in first..idx : LetterOf(sch, j) = LetterOf(sch, idx)})
IsTarget(sch, idx) == ReferenceOf(sch, idx) # idx

\* the group of line idx has a key and the dictionary has entries under it
Processed(p, idx) ==
  LET key == extract_rhyme_key(accent_text(Line(poem_lines[p], ReferenceOf(scheme[p], idx))))
  IN key # None /\ DictGet(word_endings_dict, key) # <<>>

\* the words the dictionary stores under the key of the group of line idx
GroupWords(p, idx) ==
  LET key == extract_rhyme_key(accent_text(Line(poem_lines[p], ReferenceOf(scheme[p], idx))))
      entries == DictGet(word_endings_dict, key)
  IN {entries[k].word : k \in 1..Len(entries)}

\* the last run of word characters of a line (<<>> if it has none) and its bounds
LastWordEnd(line) ==
  LET ws == {k \in 1..Len(line) : IsWordOrAccent(line[k])}
  IN IF ws = {} THEN 0 ELSE SetMax(ws)
LastWordBegin(line) ==
  IF LastWordEnd(line) = 0 THEN 1
  ELSE SetMin({k \in 1..LastWordEnd(line) :
                 \A m \in k..LastWordEnd(line) : IsWordOrAccent(line[m])})
LastWord(line) ==
  IF LastWordEnd(line) = 0 THEN <<>>
  ELSE SubSeq(line, LastWordBegin(line), LastWordEnd(line))

\* C1: the returned sequence has the length of the input, and every line that
\* is not a substitution target of a processed group equals the input line.
C1_LengthAndFrame ==
  \A p \in Procs : Done(p) =>
    /\ Len(corrected_lines[p]) = Len(poem_lines[p])
    /\ \A idx \in LineIndices(p) :
         (~IsTarget(scheme[p], idx) \/ ~Processed(p, idx))
           => Line(corrected_lines[p], idx) = Line(poem_lines[p], idx)

\* C1 witness: a call returned with a changed target beside a target of a
\* skipped group.
C1_Witness ==
  \E p \in Procs : Done(p) /\
    /\ \E idx \in LineIndices(p) : Line(corrected_lines[p], idx) # Line(poem_lines[p], idx)
    /\ \E idx \in LineIndices(p) : IsTarget(scheme[p], idx) /\ ~Processed(p, idx)

\* the precondition of C2: a 4-line AABB poem whose two reference lines have
\* keys with dictionary entries, over a dictionary that stores every entry
\* under its own rhyme key
DictConsistent ==
  \A key \in DOMAIN word_endings_dict :
    \A k \in 1..Len(word_endings_dict[key]) :
      extract_rhyme_key(accent_text(word_endings_dict[key][k].word)) = key
EndToEndCase(p) ==
  /\ Done(p) /\ scheme[p] = AABB /\ Len(poem_lines[p]) = 4
  /\ DictConsistent
  /\ Processed(p, 0) /\ Processed(p, 2)
Rhymes(l1, l2) ==
  extract_rhyme_key(accent_text(l1)) = extract_rhyme_key(accent_text(l2))

\* C2 (as claimed): in the end-to-end case lines 0 and 1 of the output have
\* equal rhyme keys and so have lines 2 and 3.
C2_EndToEndRhyme ==
  \A p \in Procs : EndToEndCase(p) =>
    /\ Rhymes(Line(corrected_lines[p], 0), Line(corrected_lines[p], 1))
    /\ Rhymes(Line(corrected_lines[p], 2), Line(corrected_lines[p], 3))

\* a target line the substitution applies to: it has a word character and
\* carries no stress mark
Replaceable(line) ==
  /\ \E k \in 1..Len(line) : IsWordChar(line[k])
  /\ \A k \in 1..Len(line) : line[k] \notin STRESS_ACCENTS

\* C2 (amended): in the end-to-end case, if target lines 1 and 3 each have a
\* word character and no stress mark, lines 0-1 and lines 2-3 of the output
\* have equal rhyme keys.
C2_EndToEndRhymeOfWords ==
  \A p \in Procs :
    (EndToEndCase(p) /\ Replaceable(Line(poem_lines[p], 1))
                     /\ Replaceable(Line(poem_lines[p], 3))) =>
      /\ Rhymes(Line(corrected_lines[p], 0), Line(corrected_lines[p], 1))
      /\ Rhymes(Line(corrected_lines[p], 2), Line(corrected_lines[p], 3))

\* C2 witness: the end-to-end case with a target that did not rhyme with its
\* reference line before the call and was rewritten.
C2_Witness ==
  \E p \in Procs :
    /\ EndToEndCase(p) /\ Replaceable(Line(poem_lines[p], 1))
    /\ Replaceable(Line(poem_lines[p], 3))
    /\ ~Rhymes(Line(poem_lines[p], 0), Line(poem_lines[p], 1))
    /\ Line(corrected_lines[p], 1) # Line(poem_lines[p], 1)

\* C3: every word recorded for a target, and the last word of every changed
\* line, is the word of a dictionary entry stored under the rhyme key of the
\* reference line of that target's group.
C3_WordFromReferenceKey ==
  \A p \in Procs :
    /\ \A a \in accepted[p] : a[3] \in GroupWords(p, a[1])
    /\ Done(p) => \A idx \in LineIndices(p) :
         Line(corrected_lines[p], idx) # Line(poem_lines[p], idx)
           => LastWord(Line(corrected_lines[p], idx)) \in GroupWords(p, idx)

\* C3 witness: a call returned a changed line, and the dictionary holds words
\* under another key as well.
C3_Witness ==
  \E p \in Procs : Done(p) /\ \E idx \in LineIndices(p) :
    /\ Line(corrected_lines[p], idx) # Line(poem_lines[p], idx)
    /\ \E key \in DOMAIN word_endings_dict :
         \E k \in 1..Len(word_endings_dict[key]) :
           word_endings_dict[key][k].word \notin GroupWords(p, idx)

\* C4 (as claimed): a target whose stress-annotated rhyme key equals the key
\* of its reference line is returned unchanged, no word is sampled for it and
\* nothing is recorded in the ledger for it.
C4_RhymingTargetUntouched ==
  \A p \in Procs : Done(p) => \A idx \in LineIndices(p) :
    (IsTarget(scheme[p], idx) /\ Processed(p, idx)
       /\ Rhymes(Line(poem_lines[p], idx),
                 Line(poem_lines[p], ReferenceOf(scheme[p], idx))))
      => /\ Line(corrected_lines[p], idx) = Line(poem_lines[p], idx)
         /\ idx \notin sampled[p]
         /\ \A a \in accepted[p] : a[1] # idx

\* the line the claimed substitution yields: the last word replaced, every
\* character after it kept
WithLastWord(line, word) ==
  IF LastWordEnd(line) = 0 THEN line
  ELSE SubSeq(line, 1, LastWordBegin(line) - 1) \o word
       \o SubSeq(line, LastWordEnd(line) + 1, Len(line))

\* C5 (as claimed): a substituted line is the input line with only its last
\* word replaced by the chosen word; the characters after that word remain.
C5_TrailingCharactersKept ==
  \A p \in Procs : Done(p) => \A a \in accepted[p] :
    Line(corrected_lines[p], a[1]) = WithLastWord(Line(poem_lines[p], a[1]), a[3])

\* C6 (as claimed): the candidates passed to the selector do not contain the
\* reference line's own final word when the dictionary holds another word
\* under the key.
C6_ReferenceWordExcluded ==
  \A p \in Procs : pc[p] \in {"target", "while", "accept"} =>
    LET own == lower(LastWord(Line(poem_lines[p], CurIndices(p)[1])))
        stored == DictGet(word_endings_dict, rhyme_key[p])
    IN (\E k \in 1..Len(stored) : stored[k].word # own)
         => \A k \in 1..Len(candidates[p]) : candidates[p][k].word # own

\* C7 (as claimed): the ledger a call consults in its collision check holds
\* exactly the words this call accepted in its current block: no word of a
\* concurrent call, and none removed by a concurrent call.
C7_LedgerIsolated ==
  \A p \in Procs : pc[p] = "while" => used_words = own_block[p]

\* C8: the ledger is empty when the groups of a block start, and the
\* collision check of a target sees under its letter only words accepted
\* earlier in the same block under that letter (requests one after another).
C8_LedgerEmptyAtBlockStart ==
  \A p \in Procs :
    /\ (pc[p] = "group" /\ g_pos[p] = 1) => used_words = {}
    /\ pc[p] = "while" =>
         {e \in used_words : e[1] = CurLetter(p)}
           \subseteq {e \in own_block[p] : e[1] = CurLetter(p)}

\* C8 witness: the first block of a call starts with an empty ledger although
\* an earlier call had left words in it.
C8_Witness ==
  \E p \in Procs :
    pc[p] = "group" /\ g_pos[p] = 1 /\ i_block[p] = 0 /\ wiped[p] /\ used_words = {}

\* C9: at most MaxAttempts re-samples per target; a re-sample happens only on
\* a collision; the loop is left with a word that is in the ledger only when
\* the retries are used up; the accepted word is then recorded.
C9_BoundedRetry ==
  /\ [](\A p \in Procs : attempts[p] <= MaxAttempts)
  /\ [][\A p \in Procs :
          /\ (pc[p] = "while" /\ pc'[p] = "while" /\ attempts'[p] # attempts[p])
               => /\ <<CurLetter(p), chosen_word[p]>> \in used_words
                  /\ attempts'[p] = attempts[p] + 1
          /\ (pc[p] = "while" /\ pc'[p] = "accept")
               => (<<CurLetter(p), chosen_word[p]>> \in used_words
                     => attempts[p] = MaxAttempts)
          /\ (pc[p] = "while" /\ attempts[p] = MaxAttempts)
               => (pc'[p] = "accept" \/ UNCHANGED <<pc[p], attempts[p], chosen_word[p]>>)
          /\ (pc[p] = "accept" /\ pc'[p] = "target")
               => <<CurLetter(p), chosen_word[p]>> \in used_words']_vars

\* C9 witness: after MaxAttempts re-samples a word that is in the ledger is
\* about to be accepted.
C9_Witness ==
  \E p \in Procs :
    /\ pc[p] = "accept" /\ attempts[p] = MaxAttempts
    /\ <<CurLetter(p), chosen_word[p]>> \in used_words

\* C10: every line of a group whose reference line has no rhyme key, or whose
\* key has no dictionary entry, is returned unchanged; no word is sampled for
\* it and nothing is recorded in the ledger for it.
C10_SkippedGroupUntouched ==
  \A p \in Procs : \A idx \in LineIndices(p) :
    (pc[p] # "idle" /\ ~Processed(p, idx))
      => /\ Line(corrected_lines[p], idx) = Line(poem_lines[p], idx)
         /\ idx \notin sampled[p]
         /\ \A a \in accepted[p] : a[1] # idx

\* C10 witness: a call returned a poem with a target of a group without a key
\* and a target of a group whose key has no dictionary entry.
C10_Witness ==
  \E p \in Procs : Done(p) /\
    /\ \E idx \in LineIndices(p) :
         /\ IsTarget(scheme[p], idx)
         /\ extract_rhyme_key(accent_text(
              Line(poem_lines[p], ReferenceOf(scheme[p], idx)))) = None
    /\ \E idx \in LineIndices(p) :
         /\ IsTarget(scheme[p], idx) /\ ~Processed(p, idx)
         /\ extract_rhyme_key(accent_text(
              Line(poem_lines[p], ReferenceOf(scheme[p], idx)))) # None

\* C11: a call that skipped a group still returns a result of full length
\* in which every target that does not rhyme with the reference line of its
\* group, in a group with a key and dictionary entries, has been given a
\* sampled word: the groups after a skipped one, in the same block and in
\* later blocks, are processed.
C11_SkipDoesNotStop ==
  \A p \in Procs : Done(p) =>
    /\ Len(corrected_lines[p]) = Len(poem_lines[p])
    /\ \A idx \in LineIndices(p) :
         (IsTarget(scheme[p], idx) /\ Processed(p, idx)
            /\ ~Rhymes(Line(poem_lines[p], idx),
                       Line(poem_lines[p], ReferenceOf(scheme[p], idx))))
           => /\ idx \in sampled[p]
              /\ \E a \in accepted[p] :
                   /\ a[1] = idx
                   /\ Line(corrected_lines[p], idx)
                        = replace_last_word(Line(poem_lines[p], idx), a[3])

\* C11 witness: a call returned; the first group of its first block was
\* skipped, and a target of a later group of that block and a target of a
\* later block were rewritten.
C11_Witness ==
  \E p \in Procs : Done(p) /\ Len(poem_lines[p]) > 0 /\ ~Processed(p, 0) /\
    /\ \E idx \in LineIndices(p) :
         /\ idx < Len(scheme[p]) /\ ReferenceOf(scheme[p], idx) > 0
         /\ Line(corrected_lines[p], idx) # Line(poem_lines[p], idx)
    /\ \E idx \in LineIndices(p) :
         /\ idx >= Len(scheme[p])
         /\ Line(corrected_lines[p], idx) # Line(poem_lines[p], idx)

\* C12: find_candidates returns the entries of the key whose word is not
\* excluded when there is one, and all entries of the key otherwise; the result
\* is empty exactly when the dictionary has no entry under the key.
C12_FindCandidates ==
  fn = "find_candidates" =>
    LET stored == DictGet(word_endings_dict, fn_args.rhyme_key)
        kept == SelectSeq(stored, LAMBDA c : c.word \notin fn_args.words_to_exclude)
    IN /\ fn_result = IF kept # <<>> THEN kept ELSE stored
       /\ (fn_result = <<>>) <=> (fn_args.rhyme_key \notin DOMAIN word_endings_dict)

\* C12 witness: every word stored under the key was excluded and the call
\* returned all the entries of the key.
C12_Witness ==
  /\ fn = "find_candidates"
  /\ DictGet(word_endings_dict, fn_args.rhyme_key) # <<>>
  /\ \A k \in 1..Len(DictGet(word_endings_dict, fn_args.rhyme_key)) :
       DictGet(word_endings_dict, fn_args.rhyme_key)[k].word \in fn_args.words_to_exclude
  /\ fn_result = DictGet(word_endings_dict, fn_args.rhyme_key)

\* the indices of a group of rhyme_groups, and the line indices of block i
IndexSet(group) == {group[2][k] : k \in 1..Len(group[2])}
BlockIndices(p, i) == {idx \in LineIndices(p) : idx \div Len(scheme[p]) = i}

\* C13: the groups of block i hold exactly the indices i*L + j < n of the
\* block, by the scheme letter at position j; with a full block AABB gives
\* {0,1} and {2,3} and ABBA gives {0,3} and {1,2} (plus i*L); every group is
\* non-empty and its first index, the reference line, is its smallest; every
\* index of the block is in exactly one group; the blocks are taken one after
\* another and a call returns after the last one.
C13_GroupsPartitionBlocks ==
  /\ [](\A p \in Procs :
         /\ pc[p] \in {"group", "target", "while", "accept"} =>
              LET L == Len(scheme[p])
                  n == Len(poem_lines[p])
                  i == i_block[p]
                  groups == rhyme_groups[p]
              IN /\ i < BlockCount(n, L)
                 /\ \A k \in 1..Len(groups) :
                      /\ Len(groups[k][2]) >= 1
                      /\ Len(groups[k][2]) = Cardinality(IndexSet(groups[k]))
                      /\ IndexSet(groups[k]) =
                           {i * L + j : j \in {j \in 0..(L - 1) :
                              i * L + j < n /\ scheme[p][j + 1] = groups[k][1]}}
                      /\ groups[k][2][1] = SetMin(IndexSet(groups[k]))
                 /\ \A idx \in BlockIndices(p, i) :
                      Cardinality({k \in 1..Len(groups) : idx \in IndexSet(groups[k])}) = 1
                 /\ \A k \in 1..Len(groups) : IndexSet(groups[k]) \subseteq BlockIndices(p, i)
                 /\ (scheme[p] = AABB /\ n >= (i + 1) * L) =>
                      {IndexSet(groups[k]) : k \in 1..Len(groups)}
                        = {{i * L, i * L + 1}, {i * L + 2, i * L + 3}}
                 /\ (scheme[p] = ABBA /\ n >= (i + 1) * L) =>
                      {IndexSet(groups[k]) : k \in 1..Len(groups)}
                        = {{i * L, i * L + 3}, {i * L + 1, i * L + 2}}
         /\ Done(p) => i_block[p] = BlockCount(Len(poem_lines[p]), Len(scheme[p])))
  /\ [][\A p \in Procs :
          (pc[p] # "idle" /\ pc'[p] # "idle")
            => i_block'[p] \in {i_block[p], i_block[p] + 1}]_vars

\* C13 witness: the groups of a partial last block, the second block of a poem
\* that is longer than the scheme.
C13_Witness ==
  \E p \in Procs :
    /\ pc[p] = "group" /\ i_block[p] = 1 /\ rhyme_groups[p] # <<>>
    /\ Len(poem_lines[p]) < 2 * Len(scheme[p])
    /\ \E k \in 1..Len(rhyme_groups[p]) : Len(rhyme_groups[p][k][2]) = 2

\* the probabilities, in sorted order summed up, of a call of choose_word_top_p
CallProbs == Probs(Weights(fn_args.candidates, fn_args.target_emotion))
CallCumulative ==
  CumulativeProbs(Weights(fn_args.candidates, fn_args.target_emotion),
                  fn_result.sorted_indices)
\* the places of the sorted order at which the sum has reached top_p
CallReached ==
  {k \in 1..Len(fn_args.candidates) :
     CallCumulative[k] * fn_args.top_p[2] >= fn_args.top_p[1] * ProbScale}

\* C14 (as claimed): the nucleus is the shortest prefix of the sorted
\* candidates whose cumulative probability reaches or exceeds top_p; the
\* candidate at which it is reached is in the nucleus.
C14_CrossingCandidateInNucleus ==
  (fn = "choose_word_top_p" /\ CallReached # {}) =>
    fn_result.top_indices =
      {fn_result.sorted_indices[k] : k \in 1..SetMin(CallReached)}

\* C15 (as claimed): with top_p = 1.0 no candidate is outside the nucleus.
C15_FullNucleusAtOne ==
  (fn = "choose_word_top_p" /\ fn_args.top_p[1] = fn_args.top_p[2]) =>
    fn_result.top_indices = 1..Len(fn_args.candidates)

\* C16: with top_p below the largest probability the nucleus is the first
\* candidate of the sorted order alone, no candidate is closer to the target
\* emotion than it, and its word is what the call returns.
C16_DegenerateNucleus ==
  (fn = "choose_word_top_p"
     /\ fn_args.top_p[1] * ProbScale
          < fn_args.top_p[2] * CallProbs[fn_result.sorted_indices[1]]) =>
    LET first == fn_result.sorted_indices[1]
        distance(k) ==
          euclidean_distance_sq(fn_args.candidates[k].emotions, fn_args.target_emotion)
    IN /\ fn_result.top_indices = {first}
       /\ fn_result.word = fn_args.candidates[first].word
       /\ \A k \in 1..Len(fn_args.candidates) : distance(first) <= distance(k)

\* C16 witness: a call with a positive top_p below the largest probability
\* on candidates at different distances from the target emotion.
C16_Witness ==
  /\ fn = "choose_word_top_p"
  /\ fn_args.top_p[1] > 0
  /\ fn_args.top_p[1] * ProbScale
       < fn_args.top_p[2] * CallProbs[fn_result.sorted_indices[1]]
  /\ \E a, b \in 1..Len(fn_args.candidates) : CallProbs[a] # CallProbs[b]

\* the places of a text where a vowel is immediately followed by a stress mark
StressedVowels(text) ==
  {i \in 1..(Len(text) - 1) : text[i] \in VOWELS /\ text[i + 1] \in STRESS_ACCENTS}
\* the end of the word (run of word characters and stress marks) and of the
\* whitespace-delimited token that holds place i
WordEnd(text, i) ==
  SetMax({j \in i..Len(text) : \A m \in i..j : IsWordOrAccent(text[m])})
TokenEnd(text, i) ==
  SetMax({j \in i..Len(text) : \A m \in i..j : ~IsSpace(text[m])})
\* the phonetic normalizer applied to a piece of text
Normalized(text) ==
  strip(unify_vowels(unify_endings(squash_duplicate_consonants(remove_accents(text)))))
\* a line in lower case without its punctuation
Unpunctuated(line) ==
  SelectSeq(lower(line), LAMBDA c : IsWordChar(c) \/ IsSpace(c) \/ c \in STRESS_ACCENTS)

\* C17 (as claimed): a line in which no vowel is immediately followed by a
\* stress mark has no key; any other line has a non-empty key that runs from
\* its rightmost stressed vowel to the end of the word holding that vowel.
C17_KeyFromStressedVowelOfLine ==
  fn = "extract_rhyme_key" =>
    LET line == lower(fn_args.accented_line)
    IN IF StressedVowels(line) = {} THEN fn_result.key = None
       ELSE LET i == SetMax(StressedVowels(line))
            IN /\ fn_result.key # None /\ fn_result.key # <<>>
               /\ fn_result.key =
                    Normalized(SubSeq(line, i, WordEnd(line, i)))

\* C17 (amended): a line in which, once its punctuation is removed, no vowel
\* is immediately followed by a stress mark has no key (so a line without a
\* stress mark has none); any other line has a non-empty key that runs from
\* the rightmost stressed vowel of the unpunctuated line to the next
\* whitespace or the end of the line.
C17_KeyFromStressedVowelUnpunctuated ==
  fn = "extract_rhyme_key" =>
    LET line == Unpunctuated(fn_args.accented_line)
    IN /\ (\A k \in 1..Len(fn_args.accented_line) :
             fn_args.accented_line[k] \notin STRESS_ACCENTS) => fn_result.key = None
       /\ IF StressedVowels(line) = {} THEN fn_result.key = None
          ELSE LET i == SetMax(StressedVowels(line))
               IN /\ fn_result.key # None /\ fn_result.key # <<>>
                  /\ fn_result.key[1] = unify_vowels(<<line[i]>>)[1]
                  /\ fn_result.key =
                       Normalized(SubSeq(line, i, TokenEnd(line, i)))

\* C17 witness: the key of a line whose stressed vowel is followed by more
\* letters of its word and then by another word.
C17_Witness ==
  /\ fn = "extract_rhyme_key"
  /\ fn_result.key # None /\ Len(fn_result.key) >= 2
  /\ \E k \in 1..Len(fn_args.accented_line) :
       /\ IsSpace(fn_args.accented_line[k])
       /\ k > SetMax(StressedVowels(Unpunctuated(fn_args.accented_line)))

\* C18: a line with a stress mark has the same key with and without
\* punctuation after it, and the key is a function of the line alone.
C18_PunctuationInvariant ==
  (fn = "extract_rhyme_key"
     /\ \E k \in 1..Len(fn_args.accented_line) :
          fn_args.accented_line[k] \in STRESS_ACCENTS) =>
    /\ fn_result.key_punctuated = fn_result.key
    /\ fn_result.key = extract_rhyme_key(fn_args.accented_line)

\* C18 witness: a line with a key, ending in a letter, taken with punctuation
\* put after it.
C18_Witness ==
  /\ fn = "extract_rhyme_key"
  /\ fn_args.punctuation # <<>>
  /\ fn_result.key # None
  /\ Len(fn_args.accented_line) > 0
  /\ IsLetter(fn_args.accented_line[Len(fn_args.accented_line)])

\* the texts of a sequence one after another, and a text without its whitespace
RECURSIVE Flatten(_)
Flatten(seqs) == IF Len(seqs) = 0 THEN <<>> ELSE seqs[1] \o Flatten(Tail(seqs))
NonSpace(text) == SelectSeq(text, LAMBDA c : ~IsSpace(c))
\* the syllables of the parts a new line joins, summed
RECURSIVE JoinedSyllables(_, _)
JoinedSyllables(parts, joined) ==
  IF Len(joined) = 0 THEN 0
  ELSE count_syllables(strip(parts[joined[1]])) + JoinedSyllables(parts, Tail(joined))

\* C19: the new lines made from a line hold, whitespace aside, the characters
\* of the line in their order, no more and no less; a line without split
\* punctuation comes out as one line equal to itself, over the limit or not.
C19_NoCharacterLost ==
  fn = "split_long_lines" =>
    /\ fn_result.new_lines =
         Flatten([k \in 1..Len(fn_args.lines) |-> fn_result.per_line[k].new_lines])
    /\ \A k \in 1..Len(fn_args.lines) :
         /\ NonSpace(Flatten(fn_result.per_line[k].new_lines)) = NonSpace(fn_args.lines[k])
         /\ (\A c \in 1..Len(fn_args.lines[k]) : fn_args.lines[k][c] \notin SPLIT_PUNCTUATION)
              => fn_result.per_line[k].new_lines = <<fn_args.lines[k]>>

\* C19 witness: a line was split in two or more new lines, and a line over
\* the limit without punctuation was given too.
C19_Witness ==
  /\ fn = "split_long_lines"
  /\ \E k \in 1..Len(fn_args.lines) : Len(fn_result.per_line[k].new_lines) >= 2
  /\ \E k \in 1..Len(fn_args.lines) :
       /\ count_syllables(fn_args.lines[k]) > fn_args.max_syllables
       /\ \A c \in 1..Len(fn_args.lines[k]) : fn_args.lines[k][c] \notin SPLIT_PUNCTUATION

\* C20: of the new lines made from a line over the limit, one that joins two
\* or more parts has at most max_syllables syllables, summed over its parts;
\* one with more is a single part that is over the limit itself.
C20_JoinedWithinLimit ==
  fn = "split_long_lines" =>
    \A k \in 1..Len(fn_args.lines) :
      count_syllables(fn_args.lines[k]) > fn_args.max_syllables =>
        LET r == fn_result.per_line[k]
        IN /\ Len(r.joined) = Len(r.new_lines)
           /\ Flatten(r.joined) = [j \in 1..Len(r.parts) |-> j]
           /\ \A f \in 1..Len(r.joined) :
                /\ Len(r.joined[f]) >= 2
                     => JoinedSyllables(r.parts, r.joined[f]) <= fn_args.max_syllables
                /\ JoinedSyllables(r.parts, r.joined[f]) > fn_args.max_syllables
                     => Len(r.joined[f]) = 1

\* C20 witness: a line over the limit came out as a new line that joins two
\* parts and a new line that is over the limit.
C20_Witness ==
  /\ fn = "split_long_lines"
  /\ \E k \in 1..Len(fn_args.lines) :
       LET r == fn_result.per_line[k]
       IN /\ count_syllables(fn_args.lines[k]) > fn_args.max_syllables
          /\ \E f \in 1..Len(r.joined) : Len(r.joined[f]) >= 2
          /\ \E f \in 1..Len(r.joined) :
               JoinedSyllables(r.parts, r.joined[f]) > fn_args.max_syllables

UnusedLetters(rhyme_scheme) ==
  SelectSeq(ASCII_UPPERCASE,
            LAMBDA c : \A k \in 1..Len(rhyme_scheme) : rhyme_scheme[k] # c)
Dashes(rhyme_scheme) == {k \in 1..Len(rhyme_scheme) : rhyme_scheme[k] = "-"}

\* C22: impute_rhyme_scheme returns None exactly when the scheme has more "-"
\* than there are capital letters that do not occur in it; otherwise it
\* returns the scheme with its m-th "-" replaced by the m-th such letter and
\* every other character as it was ("AA--" gives "AABC", "-A-A" gives "BACA").
C22_ImputeFreshLetters ==
  fn = "impute_rhyme_scheme" =>
    LET unused == UnusedLetters(fn_args)
        dashes == Dashes(fn_args)
    IN /\ (fn_result = None) <=> (Cardinality(dashes) > Len(unused))
       /\ fn_result # None =>
            /\ Len(fn_result) = Len(fn_args)
            /\ \A k \in 1..Len(fn_args) :
                 fn_result[k] =
                   IF k \in dashes
                   THEN unused[Cardinality({d \in dashes : d <= k})]
                   ELSE fn_args[k]
       /\ fn_args = <<"A", "A", "-", "-">> => fn_result = <<"A", "A", "B", "C">>
       /\ fn_args = <<"-", "A", "-", "A">> => fn_result = <<"B", "A", "C", "A">>

\* C22 witness: a scheme with two or more "-" and a letter that is free, but
\* fewer free letters than "-": None is returned.
C22_Witness ==
  /\ fn = "impute_rhyme_scheme"
  /\ fn_result = None
  /\ Len(UnusedLetters(fn_args)) >= 1
  /\ Cardinality(Dashes(fn_args)) >= 2

\* C23 (as claimed): a text without a vowel, the empty one included, has the
\* syllable count 0; the syllable count of a line is the sum of the counts of
\* its words.
C23_NoVowelNoSyllable ==
  fn = "count_syllables" =>
    /\ (\A k \in 1..Len(fn_args) : LowerChar(fn_args[k]) \notin VOWELS)
         => fn_result.count = 0
    /\ fn_result.line_count = SumSyllables(WordTokens(remove_accents(lower(fn_args))))

\* C24: the word-ending index stays the index loaded at construction, and
\* the lines given to a call of enforce_rhyme_scheme stay as they were given
\* while the call runs, with any number of calls one after another or at the
\* same time.
C24_IndexAndInputUnchanged ==
  /\ [](word_endings_dict = BuildWordEndingsDict)
  /\ [][\A p \in Procs :
          (pc[p] # "idle" /\ pc'[p] # "idle") => poem_lines'[p] = poem_lines[p]]_vars

\* C24 witness: two calls run at the same time and one of them has rewritten
\* a line of its result.
C24_Witness ==
  /\ \A p \in Procs : pc[p] \notin {"idle", "done"}
  /\ \E p \in Procs : corrected_lines[p] # poem_lines[p]

\* C25: a run of enforce_rhyme_scheme is decided by its arguments, the index
\* and the words drawn, whatever earlier calls left in the ledger: the
\* collision check accepts or re-samples as the words this run itself added
\* in the block decide, and after every add the ledger is these words.
C25_RunDecidedByOwnDraws ==
  [][\A p \in Procs :
       /\ pc[p] = "while" =>
            (pc'[p] = "accept"
               <=> ~Collides(own_block[p], CurLetter(p), chosen_word[p], attempts[p]))
       /\ pc[p] = "accept" => used_words' = own_block'[p]]_vars

\* C25 witness: a run that found words of an earlier call in the ledger
\* accepts the first word drawn for a target of its first block.
C25_Witness ==
  \E p \in Procs :
    /\ pc[p] = "accept" /\ i_block[p] = 0 /\ wiped[p]
    /\ attempts[p] = 0 /\ own_block[p] = {}

\* C26: a wrapped command runs its handler only for a sender in the list the
\* provider returns when the message is handled, default_action for every
\* other sender, and exactly one of the two for every message.
C26_OwnerOnly ==
  /\ [](\A u \in Updates :
          /\ Len(ran[u]) <= 1
          /\ (msg_pc[u] = "return") => (Len(ran[u]) = 1)
          /\ (ran[u] = <<"handler">>)
               => InList(message[u].from_user, authorized_ids[u])
          /\ (ran[u] = <<"default_action">>)
               => ~InList(message[u].from_user, authorized_ids[u]))
  /\ [][\A u \in Updates :
          (msg_pc[u] = "idle" /\ msg_pc'[u] # "idle") =>
            /\ authorized_ids'[u] = get_owner_ids(owner_env)
            /\ (msg_pc'[u] = "handler")
                 <=> InList(message'[u].from_user, get_owner_ids(owner_env))]_vars

\* C26 witness: the handler has run for a sender who was an owner when the
\* message was handled and is none now, and default_action for another message.
C26_Witness ==
  \E u, v \in Updates :
    /\ ran[u] = <<"handler">>
    /\ ~InList(message[u].from_user, get_owner_ids(owner_env))
    /\ ran[v] = <<"default_action">>

\* C27: the table holds at most one rating of a generation by a user, the
\* first one a rating callback of this user for this generation brought, and
\* a callback for a pair already rated leaves the table as it is, with the
\* handlers interleaved at their awaits.
C27_OneRatingFirstWins ==
  /\ [](\A pair \in RatingPairs :
          LET rows == RatingsBy(generation_ratings, pair[1], pair[2])
          IN /\ Len(rows) <= 1
             /\ (first_rating[pair] = 0) => (rows = <<>>)
             /\ (first_rating[pair] # 0)
                  => (Len(rows) = 1 /\ rows[1].rating = first_rating[pair]))
  /\ [][\A u \in Updates :
          (/\ cb_pc[u] = "idle" /\ cb_pc'[u] # "idle"
           /\ has_user_rated(generation_ratings, callback'[u].from_user,
                             callback'[u].data[2]))
            => generation_ratings' = generation_ratings]_vars

\* C27 witness: while the handler of a user's first rating of a generation
\* awaits, a second callback of this user for this generation with another
\* rating has been handled.
C27_Witness ==
  \E u, v \in Updates :
    /\ cb_pc[u] = "edit_reply_markup" /\ cb_pc[v] = "answer_rated"
    /\ callback[u].from_user = callback[v].from_user
    /\ callback[u].data[2] = callback[v].data[2]
    /\ callback[u].data[3] # callback[v].data[3]
    /\ first_rating[<<callback[u].from_user, callback[u].data[2]>>]
         = callback[u].data[3]

\* C28 (as claimed): when close() has awaited session.close(), nothing else
\* having run since, every ClientSession the getters created is closed.
C28_SessionsClosedAfterClose ==
  (last_call = [method |-> "close", result |-> 0])
    => \A k \in 1..Len(sessions) : sessions[k] = "closed"

\* C29 (as claimed): a line that holds more than whitespace gives no new line
\* that is empty or whitespace only, and gives at least one new line.
C29_NoEmptyLineEmitted ==
  fn = "split_long_lines" =>
    \A k \in 1..Len(fn_args.lines) :
      strip(fn_args.lines[k]) # <<>> =>
        /\ Len(fn_result.per_line[k].new_lines) >= 1
        /\ \A n \in 1..Len(fn_result.per_line[k].new_lines) :
             strip(fn_result.per_line[k].new_lines[n]) # <<>>

\* C30 (as claimed): a rhyme key is left as it is by the normalisation steps,
\* and holds no stress mark, no soft sign, none of the vowels я э ы ё ю, none
\* of ий, ый, тс, and no consonant twice in a row.
C30_NormalisationCanonical ==
  (fn = "extract_rhyme_key" /\ fn_result.key # None) =>
    LET key == fn_result.key
    IN /\ Normalized(key) = key
       /\ \A i \in 1..Len(key) :
            /\ key[i] \notin STRESS_ACCENTS \cup {"soft"} \cup DOMAIN VOWEL_UNIFICATION
            /\ ~OccursAt(key, <<"i", "j">>, i)
            /\ ~OccursAt(key, <<"y", "j">>, i)
            /\ ~OccursAt(key, <<"t", "s">>, i)
            /\ (key[i] \in CONSONANTS) => ~OccursAt(key, <<key[i], key[i]>>, i)
====
